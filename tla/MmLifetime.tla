----------------------------- MODULE MmLifetime -----------------------------
(***************************************************************************)
(* The lifetime of an mm_struct: mm_users counts those who use the address *)
(* space, mm_count the users as one and everybody who only needs the       *)
(* structure: kernel threads that run on the page tables of whoever ran    *)
(* before them (active_mm), a CPU between context_switch() and             *)
(* finish_task_switch() (rq->prev_mm), and the OOM killer.  Also vfork():  *)
(* the child completes a structure on its parent's stack.                  *)
(*                                                                         *)
(* From copy_mm() to mm_release() of kernel/fork.c and context_switch() of *)
(* kernel/sched/core.c; exit_mm(), exec_mmap() and kthread_use_mm() are    *)
(* outside the repository and modelled by what they do to the counts.      *)
(***************************************************************************)
EXTENDS Integers, FiniteSets

CONSTANTS
    CPUs,       \* the CPUs
    Idle,       \* Idle[c]: the idle task of c
    Slots,      \* the task_struct slots for other tasks
    First,      \* the task of Slots that exists at first
    MMs,        \* the mm_structs
    init_mm,    \* the kernel's
    None,       \* no task, no mm
    Scenarios   \* what happens in a behaviour: sets of "vfork", "exec", "observer", "use_mm", "oom", "set", "coredump"

Idles == {Idle[c] : c \in CPUs}
Tasks == Slots \cup Idles

ASSUME MmAssumption == init_mm \in MMs /\ MMs # {init_mm} /\ None \notin MMs \cup Tasks
ASSUME TaskAssumption == First \in Slots /\ Slots \cap Idles = {} /\ IsFiniteSet(Tasks)
ASSUME CpuAssumption == CPUs # {} /\ IsFiniteSet(CPUs) /\ \A c, d \in CPUs : Idle[c] = Idle[d] => c = d

VARIABLES
    uses,       \* the scenario of this behaviour
    st,         \* st[t]: "absent", "new" (in copy_process()), "ready", "running" or "dead"
    maker,      \* maker[t]: who creates the "new" task t
    released,   \* the exiting tasks that are past exit_mm_release() and still have their mm
    kthread,    \* the tasks with PF_KTHREAD
    mm,         \* t->mm
    active_mm,  \* t->active_mm
    curr,       \* curr[c]: the task that runs on c
    prev_mm,    \* prev_mm[c]: rq->prev_mm
    mm_users, mm_count,
    mmst,       \* mmst[m]: "free", "used", or "exited" once its address space is gone
    work,       \* work[m]: "none", "mmput" or "mmdrop": what is still to be run for m
    owner,      \* m->owner
    observed,   \* the mms somebody holds after get_task_mm()
    oom,        \* the mms held in signal->oom_mm
    vfork_done, \* vfork_done[t]: the parent whose completion t->vfork_done is
    waiting,    \* waiting[t]: the child t waits for in wait_for_vfork_done()
    done,       \* the tasks whose completion has been completed
    tid         \* tid[t]: "none", or clear_child_tid is "set", "cleared", left "stale" or "kept" for a dump

taskVars == <<st, maker, released, kthread, mm, active_mm, curr, prev_mm>>
mmVars == <<mm_users, mm_count, mmst, work, owner, observed, oom>>
vforkVars == <<vfork_done, waiting, done, tid>>
vars == <<uses, taskVars, mmVars, vforkVars>>

FirstMm == CHOOSE m \in MMs : m # init_mm

\* First runs on one CPU in its own mm; the idle tasks of the others have borrowed init_mm.
Init ==
    LET c0 == CHOOSE c \in CPUs : TRUE IN
      /\ uses \in Scenarios
      /\ st = [t \in Tasks |-> CASE t = First \/ (t \in Idles /\ t # Idle[c0]) -> "running"
                                 [] t = Idle[c0] -> "ready" [] OTHER -> "absent"]
      /\ maker = [t \in Tasks |-> None] /\ released = {} /\ kthread = Idles
      /\ mm = [t \in Tasks |-> IF t = First THEN FirstMm ELSE None]
      /\ active_mm = [t \in Tasks |-> CASE t = First -> FirstMm
                                        [] t \in Idles /\ t # Idle[c0] -> init_mm [] OTHER -> None]
      /\ curr = [c \in CPUs |-> IF c = c0 THEN First ELSE Idle[c]]
      /\ prev_mm = [c \in CPUs |-> None]
      /\ mm_users = [m \in MMs |-> IF m \in {FirstMm, init_mm} THEN 1 ELSE 0]
      /\ mm_count = [m \in MMs |-> CASE m = FirstMm -> 1 [] m = init_mm -> Cardinality(CPUs) [] OTHER -> 0]
      /\ mmst = [m \in MMs |-> IF m \in {FirstMm, init_mm} THEN "used" ELSE "free"]
      /\ work = [m \in MMs |-> "none"]
      /\ owner = [m \in MMs |-> IF m = FirstMm THEN First ELSE None]
      /\ observed = {} /\ oom = {}
      /\ vfork_done = [t \in Tasks |-> None] /\ waiting = [t \in Tasks |-> None]
      /\ done = {} /\ tid = [t \in Tasks |-> "none"]

-----------------------------------------------------------------------------
(* The counts: an operator gives the functions after one operation *)

Counts == [users |-> mm_users, count |-> mm_count, mmst |-> mmst, work |-> work]

mmget(k, m) == [k EXCEPT !.users[m] = @ + 1]
mmgrab(k, m) == [k EXCEPT !.count[m] = @ + 1]

\* A new mm has one user and one reference.
MmInit(m) ==
    [users |-> [mm_users EXCEPT ![m] = 1], count |-> [mm_count EXCEPT ![m] = 1],
     mmst |-> [mmst EXCEPT ![m] = "used"], work |-> work]

\* The last user leaves __mmput() to be run, by the caller or by a work item.
mmput(k, m) == [k EXCEPT !.users[m] = @ - 1, !.work[m] = IF k.users[m] = 1 THEN "mmput" ELSE @]

\* The last reference frees the structure at once.
mmdrop(k, m) == [k EXCEPT !.count[m] = @ - 1, !.mmst[m] = IF k.count[m] = 1 THEN "free" ELSE @]

SetCounts(k) == mm_users' = k.users /\ mm_count' = k.count /\ mmst' = k.mmst /\ work' = k.work

\* exit_mmap() and the rest of __mmput(), whose last act is mmdrop().
__mmput(m) ==
    /\ work[m] = "mmput"
    /\ SetCounts(mmdrop([Counts EXCEPT !.work[m] = "none", !.mmst[m] = "exited"], m))
    /\ UNCHANGED <<taskVars, owner, observed, oom, vforkVars>>

\* free_signal_struct() drops oom_mm from a context that may not free the page directory.
mmdrop_async(m) ==
    /\ m \in oom
    /\ oom' = oom \ {m}
    /\ SetCounts([Counts EXCEPT !.count[m] = @ - 1, !.work[m] = IF mm_count[m] = 1 THEN "mmdrop" ELSE @])
    /\ UNCHANGED <<taskVars, owner, observed, vforkVars>>

mmdrop_async_fn(m) ==
    /\ work[m] = "mmdrop"
    /\ SetCounts([Counts EXCEPT !.work[m] = "none", !.mmst[m] = "free"])
    /\ UNCHANGED <<taskVars, owner, observed, oom, vforkVars>>

-----------------------------------------------------------------------------
(* Running *)

\* t runs on c in kernel mode and is neither exiting nor in wait_for_vfork_done().
Runs(t, c) == curr[c] = t /\ st[t] = "running" /\ t \notin released /\ prev_mm[c] = None /\ waiting[t] = None

Runnable(t) ==
    /\ st[t] = "ready"
    /\ waiting[t] # None => t \in done

\* Only the switch from a user to a kernel task adds a reference.
LazyCounts(prev, next) ==
    IF mm[next] = None /\ mm[prev] # None THEN mmgrab(Counts, active_mm[prev]) ELSE Counts

\* A kernel task borrows the page tables of its predecessor, with a reference of its own or with
\* that of the predecessor; a user task has its own, and what the predecessor borrowed is dropped
\* in finish_task_switch().
context_switch(c, next) ==
    LET prev == curr[c] IN
    /\ prev_mm[c] = None /\ Runnable(next) /\ (next \in Idles => next = Idle[c])
    /\ SetCounts(LazyCounts(prev, next))
    /\ active_mm' = [t \in Tasks |->
                       CASE t = next /\ mm[next] = None -> active_mm[prev]
                         [] t = prev /\ mm[prev] = None -> None
                         [] OTHER -> active_mm[t]]
    /\ prev_mm' = [prev_mm EXCEPT ![c] = IF mm[next] # None /\ mm[prev] = None THEN active_mm[prev] ELSE None]
    /\ curr' = [curr EXCEPT ![c] = next]
    /\ st' = [st EXCEPT ![next] = "running", ![prev] = IF @ = "dead" THEN "absent" ELSE "ready"]
    /\ tid' = [tid EXCEPT ![prev] = IF st[prev] = "dead" THEN "none" ELSE @]
    /\ kthread' = IF st[prev] = "dead" THEN kthread \ {prev} ELSE kthread
    /\ UNCHANGED <<maker, released, mm, owner, observed, oom, vfork_done, waiting, done>>

\* mmdrop(rq->prev_mm).
finish_task_switch(c) ==
    /\ prev_mm[c] # None
    /\ SetCounts(mmdrop(Counts, prev_mm[c]))
    /\ prev_mm' = [prev_mm EXCEPT ![c] = None]
    /\ UNCHANGED <<st, maker, released, kthread, mm, active_mm, curr, owner, observed, oom, vforkVars>>

-----------------------------------------------------------------------------
(* fork *)

\* t on c creates task u: a kernel thread makes another, CLONE_VM shares the mm.
copy_mm_shared(t, c, u) ==
    /\ t \in kthread => mm[t] = None
    /\ Runs(t, c) /\ u \in Slots /\ st[u] = "absent" /\ \A v \in Tasks : maker[v] # t
    /\ st' = [st EXCEPT ![u] = "new"] /\ maker' = [maker EXCEPT ![u] = t]
    /\ kthread' = IF t \in kthread THEN kthread \cup {u} ELSE kthread \ {u}
    /\ mm' = [mm EXCEPT ![u] = mm[t]]
    /\ active_mm' = [active_mm EXCEPT ![u] = mm[t]]
    /\ SetCounts(IF mm[t] = None THEN Counts ELSE mmget(Counts, mm[t]))
    /\ UNCHANGED <<released, curr, prev_mm, owner, observed, oom, vforkVars>>

\* dup_mm(): a new mm with one user, owned by the child, into which dup_mmap() copies.
dup_mm(t, c, u, m) ==
    /\ Runs(t, c) /\ u \in Slots /\ st[u] = "absent" /\ \A v \in Tasks : maker[v] # t
    /\ mm[t] # None /\ t \notin kthread
    /\ mmst[m] = "free" /\ m = CHOOSE n \in MMs : mmst[n] = "free"
    /\ st' = [st EXCEPT ![u] = "new"] /\ maker' = [maker EXCEPT ![u] = t]
    /\ kthread' = kthread \ {u}
    /\ mm' = [mm EXCEPT ![u] = m] /\ active_mm' = [active_mm EXCEPT ![u] = m]
    /\ SetCounts(MmInit(m))
    /\ owner' = [owner EXCEPT ![m] = u]
    /\ UNCHANGED <<released, curr, prev_mm, observed, oom, vforkVars>>

\* Bug: the user that the child was is not given back.
bad_fork_cleanup_mm_leak(t, c, u) ==
    /\ Runs(t, c) /\ maker[u] = t
    /\ owner' = IF mm[u] # None /\ owner[mm[u]] = u THEN [owner EXCEPT ![mm[u]] = None] ELSE owner
    /\ mm' = [mm EXCEPT ![u] = None] /\ active_mm' = [active_mm EXCEPT ![u] = None]
    /\ st' = [st EXCEPT ![u] = "absent"] /\ maker' = [maker EXCEPT ![u] = None]
    /\ kthread' = kthread \ {u}
    /\ UNCHANGED <<released, mm_users, mm_count, mmst, work, curr, prev_mm, observed, oom, vforkVars>>

mm_clear_owner(m, u) == IF m # None /\ owner[m] = u THEN [owner EXCEPT ![m] = None] ELSE owner

\* dup_mmap() or a later step of copy_process() fails.
bad_fork_cleanup_mm(t, c, u) ==
    /\ Runs(t, c) /\ maker[u] = t
    /\ owner' = mm_clear_owner(mm[u], u)
    /\ SetCounts(IF mm[u] = None THEN Counts ELSE mmput(Counts, mm[u]))
    /\ mm' = [mm EXCEPT ![u] = None] /\ active_mm' = [active_mm EXCEPT ![u] = None]
    /\ st' = [st EXCEPT ![u] = "absent"] /\ maker' = [maker EXCEPT ![u] = None]
    /\ kthread' = kthread \ {u}
    /\ UNCHANGED <<released, curr, prev_mm, observed, oom, vforkVars>>

\* The child starts; with CLONE_VFORK the parent will wait for it.
kernel_clone(t, c, u) ==
    /\ Runs(t, c) /\ maker[u] = t
    /\ st' = [st EXCEPT ![u] = "ready"] /\ maker' = [maker EXCEPT ![u] = None]
    /\ \/ UNCHANGED <<vfork_done, waiting, done>>
       \/ /\ "vfork" \in uses
          /\ vfork_done' = [vfork_done EXCEPT ![u] = t]
          /\ waiting' = [waiting EXCEPT ![t] = u]
          /\ done' = done \ {t}
    /\ \E v \in {"none"} \cup ({"set"} \cap uses) : tid' = [tid EXCEPT ![u] = v]
    /\ UNCHANGED <<released, kthread, mm, active_mm, curr, prev_mm, mmVars>>

\* Bug: a parent that is killed leaves the child's pointer to its stack.
wait_for_vfork_done_dangling(t) ==
    /\ waiting[t] # None /\ st[t] \in {"running", "ready"}
    /\ waiting' = [waiting EXCEPT ![t] = None]
    /\ done' = done \ {t}
    /\ UNCHANGED <<taskVars, mmVars, vfork_done, tid>>

\* The parent returns because the child is done or because it is killed itself; in the second case
\* it takes the pointer away from the child, under the child's task_lock.
wait_for_vfork_done(t) ==
    LET p == waiting[t] IN
    /\ p # None /\ st[t] \in {"running", "ready"}
    /\ vfork_done' = IF t \in done THEN vfork_done ELSE [vfork_done EXCEPT ![p] = None]
    /\ waiting' = [waiting EXCEPT ![t] = None]
    /\ done' = done \ {t}
    /\ UNCHANGED <<taskVars, mmVars, tid>>

-----------------------------------------------------------------------------
(* exec and exit *)

\* complete_vfork_done(), under t's task_lock.
complete_vfork_done(t) ==
    /\ vfork_done' = [vfork_done EXCEPT ![t] = None]
    /\ done' = IF vfork_done[t] # None THEN done \cup {vfork_done[t]} ELSE done

\* The word that pthread_join() waits for is only written when somebody may look at it, and not when
\* the group dumps core.
clear_child_tid(t, dumps) ==
    tid' = [tid EXCEPT ![t] = CASE @ # "set" -> @ [] dumps -> "kept"
                                [] mm_users[mm[t]] > 1 -> "cleared" [] OTHER -> "stale"]

mm_release(t, dumps) == clear_child_tid(t, dumps) /\ complete_vfork_done(t)

\* mm_update_next_owner(): another user of m, or nobody.
NextOwner(m, t) ==
    IF owner[m] # t THEN owner[m]
    ELSE LET others == {u \in Slots \ {t} : mm[u] = m /\ u \notin kthread /\ st[u] \in {"ready", "running"}} IN
         IF others = {} THEN None ELSE CHOOSE u \in others : TRUE

\* An exiting task releases its mm, which it still has.
exit_mm_release(t, c) ==
    /\ Runs(t, c) /\ t \in Slots /\ \A u \in Tasks : maker[u] # t
    /\ t \in kthread => mm[t] = None
    /\ IF mm[t] = None THEN complete_vfork_done(t) /\ UNCHANGED tid
                       ELSE \E dumps \in {FALSE, "coredump" \in uses} : mm_release(t, dumps)
    /\ released' = released \cup {t}
    /\ UNCHANGED <<st, maker, kthread, mm, active_mm, curr, prev_mm, mmVars, waiting>>

\* The rest of exit_mm(): t keeps the mm only as the one it borrows.
exit_mm(t, c) ==
    /\ curr[c] = t /\ prev_mm[c] = None /\ t \in released
    /\ released' = released \ {t} /\ st' = [st EXCEPT ![t] = "dead"]
    /\ IF mm[t] = None
       THEN UNCHANGED <<mm, mm_users, mm_count, mmst, work, owner>>
       ELSE /\ mm' = [mm EXCEPT ![t] = None]
            /\ owner' = [owner EXCEPT ![mm[t]] = NextOwner(mm[t], t)]
            /\ SetCounts(mmput(mmgrab(Counts, mm[t]), mm[t]))
    /\ UNCHANGED <<maker, kthread, active_mm, curr, prev_mm, observed, oom, vforkVars>>

\* exec_mmap(): mm_alloc(), exec_mm_release(); the old mm is put, or what a kernel thread borrowed
\* is dropped.
exec_mmap(t, c) ==
    LET m == CHOOSE n \in MMs : mmst[n] = "free"
        k == MmInit(m) IN
    /\ "exec" \in uses /\ Runs(t, c) /\ t \in Slots /\ \A u \in Tasks : maker[u] # t
    /\ \E n \in MMs : mmst[n] = "free"
    /\ t \in kthread => mm[t] = None
    /\ IF mm[t] = None
       THEN /\ SetCounts(mmdrop(k, active_mm[t])) /\ owner' = [owner EXCEPT ![m] = t]
            /\ complete_vfork_done(t) /\ UNCHANGED tid
       ELSE /\ mm_release(t, FALSE)
            /\ SetCounts(mmput(k, mm[t]))
            /\ owner' = [owner EXCEPT ![mm[t]] = NextOwner(mm[t], t), ![m] = t]
    /\ mm' = [mm EXCEPT ![t] = m] /\ active_mm' = [active_mm EXCEPT ![t] = m]
    /\ kthread' = kthread \ {t}
    /\ UNCHANGED <<st, maker, released, curr, prev_mm, observed, oom, waiting>>

-----------------------------------------------------------------------------
(* Others who use an mm *)

\* The mm of a kernel thread is not its own.
MayObserve(t) == mm[t] # None /\ t \notin kthread

\* /proc and ptrace take a reference under t's task_lock and give it back later.
get_task_mm(t) ==
    /\ "observer" \in uses /\ st[t] \in {"ready", "running"} /\ MayObserve(t) /\ mm[t] \notin observed
    /\ observed' = observed \cup {mm[t]}
    /\ SetCounts(mmget(Counts, mm[t]))
    /\ UNCHANGED <<taskVars, owner, oom, vforkVars>>

observer_mmput(m) ==
    /\ m \in observed
    /\ observed' = observed \ {m}
    /\ SetCounts(mmput(Counts, m))
    /\ UNCHANGED <<taskVars, owner, oom, vforkVars>>

\* kthread_use_mm() on an mm of which the thread holds a user, and kthread_unuse_mm() with mmput().
kthread_use_mm(t, c, m) ==
    /\ "use_mm" \in uses /\ Runs(t, c) /\ t \in kthread \cap Slots /\ mm[t] = None
    /\ m # init_mm /\ mm_users[m] > 0
    /\ LET k == mmget(Counts, m) IN
       SetCounts(IF active_mm[t] = m THEN k ELSE mmdrop(mmgrab(k, m), active_mm[t]))
    /\ mm' = [mm EXCEPT ![t] = m] /\ active_mm' = [active_mm EXCEPT ![t] = m]
    /\ UNCHANGED <<st, maker, released, kthread, curr, prev_mm, owner, observed, oom, vforkVars>>

kthread_unuse_mm(t, c) ==
    /\ Runs(t, c) /\ t \in kthread /\ mm[t] # None /\ \A u \in Tasks : maker[u] # t
    /\ SetCounts(mmput(Counts, mm[t]))
    /\ mm' = [mm EXCEPT ![t] = None]
    /\ UNCHANGED <<st, maker, released, kthread, active_mm, curr, prev_mm, owner, observed, oom, vforkVars>>

\* mark_oom_victim() takes a reference that signal->oom_mm keeps.
mark_oom_victim(m) ==
    /\ "oom" \in uses /\ m # init_mm /\ mm_users[m] > 0 /\ m \notin oom
    /\ oom' = oom \cup {m}
    /\ SetCounts(mmgrab(Counts, m))
    /\ UNCHANGED <<taskVars, owner, observed, vforkVars>>

-----------------------------------------------------------------------------
Step ==
    \/ \E m \in MMs : __mmput(m) \/ mmdrop_async(m) \/ mmdrop_async_fn(m) \/ observer_mmput(m)
                      \/ mark_oom_victim(m)
    \/ \E c \in CPUs :
         \/ finish_task_switch(c)
         \/ \E t \in Tasks :
              \/ context_switch(c, t) \/ exit_mm_release(t, c) \/ exit_mm(t, c)
              \/ exec_mmap(t, c) \/ kthread_unuse_mm(t, c)
              \/ \E m \in MMs : kthread_use_mm(t, c, m)
              \/ \E u \in Slots :
                   \/ copy_mm_shared(t, c, u) \/ bad_fork_cleanup_mm(t, c, u) \/ kernel_clone(t, c, u)
                   \/ \E m \in MMs : dup_mm(t, c, u, m)
    \/ \E t \in Tasks : get_task_mm(t) \/ wait_for_vfork_done(t)

Next == Step /\ UNCHANGED uses

Spec == Init /\ [][Next]_vars

-----------------------------------------------------------------------------
TypeOK ==
    /\ st \in [Tasks -> {"absent", "new", "ready", "running", "dead"}]
    /\ maker \in [Tasks -> Tasks \cup {None}] /\ released \subseteq Tasks /\ kthread \subseteq Tasks
    /\ mm \in [Tasks -> MMs \cup {None}] /\ active_mm \in [Tasks -> MMs \cup {None}]
    /\ curr \in [CPUs -> Tasks] /\ prev_mm \in [CPUs -> MMs \cup {None}]
    /\ mm_users \in [MMs -> 0..(Cardinality(Tasks) + 1)]
    /\ mm_count \in [MMs -> 0..(Cardinality(Tasks) + Cardinality(CPUs) + 2)]
    /\ mmst \in [MMs -> {"free", "used", "exited"}] /\ work \in [MMs -> {"none", "mmput", "mmdrop"}]
    /\ owner \in [MMs -> Tasks \cup {None}] /\ observed \subseteq MMs /\ oom \subseteq MMs
    /\ vfork_done \in [Tasks -> Tasks \cup {None}] /\ waiting \in [Tasks -> Tasks \cup {None}]
    /\ done \subseteq Tasks /\ tid \in [Tasks -> {"none", "set", "cleared", "stale", "kept"}]

\* The tasks that hold a reference of their own to m because they borrow it, adopted or not.
Borrowers(m) == {t \in Tasks : active_mm[t] = m /\ (mm[t] = None \/ t \in kthread)}

\* Both counts are exact: mm_users is the users, and mm_count is one for all of them plus the
\* borrowers, the CPUs in the middle of a switch and the OOM killer's reference.
MmCountsExact ==
    \A m \in MMs \ {init_mm} :
      /\ mm_users[m] = Cardinality({t \in Tasks : mm[t] = m}) + (IF m \in observed THEN 1 ELSE 0)
      /\ mm_count[m] = (IF mm_users[m] > 0 \/ work[m] = "mmput" THEN 1 ELSE 0) + Cardinality(Borrowers(m))
                       + Cardinality({c \in CPUs : prev_mm[c] = m}) + (IF m \in oom THEN 1 ELSE 0)

\* No CPU runs on freed page tables, and no task uses an address space that is being torn down.
NoUseAfterFree ==
    /\ \A c \in CPUs : /\ active_mm[curr[c]] # None /\ mmst[active_mm[curr[c]]] # "free"
                       /\ prev_mm[c] # None => mmst[prev_mm[c]] # "free"
    /\ \A t \in Tasks : mm[t] # None => mmst[mm[t]] = "used" /\ work[mm[t]] = "none"
    /\ \A m \in MMs : mmst[m] = "free" <=> mm_count[m] = 0 /\ work[m] = "none"

\* mm->owner is a task that exists, also after failed forks.
OwnerExists == \A m \in MMs : mmst[m] = "used" /\ owner[m] # None => st[owner[m]] # "absent"

\* A child completes only what its parent still waits for, and a parent that waits has been woken
\* or has a child that will wake it: the stack of the parent is never written to after it has
\* returned, and no completion is lost.
VforkCompletion ==
    \A t \in Tasks :
      /\ vfork_done[t] # None => waiting[vfork_done[t]] = t
      /\ waiting[t] # None => t \in done \/ vfork_done[waiting[t]] = t

\* When the word for pthread_join() is left alone, no other task has the address space.
JoinersTold ==
    \A t \in Tasks : tid[t] = "set" /\ tid'[t] = "stale" => \A u \in Tasks \ {t} : mm[u] # mm[t]

\* An mm_struct lives exactly as long as somebody uses or borrows it, through forks that fail, lazy
\* switches, adoption by kernel threads and the OOM killer.
MmStructSafe == MmCountsExact /\ NoUseAfterFree /\ OwnerExists

\* Whoever waits for a task to give up its address space, its vfork() parent or a joining thread, is told.
ReleaseTellsAll == [][VforkCompletion' /\ JoinersTold]_vars
=============================================================================
