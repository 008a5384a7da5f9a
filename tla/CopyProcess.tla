---------------------------- MODULE CopyProcess -----------------------------
(***************************************************************************)
(* copy_process() of kernel/fork.c: what a new task takes, step by step,   *)
(* what the ladder of bad_fork_* labels gives back when a step fails, and  *)
(* how the last references to a task are dropped after its exit.           *)
(*                                                                         *)
(* A child starts as a copy of its creator's task_struct, so that its      *)
(* pointers to files, fs, sighand and signal are the creator's before it   *)
(* holds a reference through them.  Several tasks fork at the same time    *)
(* and share these structures; between two steps others may fork, exit, be *)
(* killed, send signals to the process group and install seccomp filters.  *)
(* do_exit() and release_task() are kernel/exit.c, which the repository    *)
(* does not hold; they are modelled by what they give back.                *)
(***************************************************************************)
EXTENDS Integers, Sequences, FiniteSets

CONSTANTS
    Tasks,      \* the task_struct slots; an object of each kind exists at most once per slot
    Root,       \* the task that exists at boot and never exits
    None,       \* no task, no object
    Signals,    \* the signals sent to the process group
    Scenarios,  \* what happens in a behaviour: flags (the sets of clone flags used), events (some of
                \* "signal", "kill", "seccomp", "namespace", "refs") and forks, a bound on the forks at a time
    max_threads

ASSUME RootAssumption == Root \in Tasks /\ None \notin Tasks /\ IsFiniteSet(Tasks)
ASSUME MaxThreadsAssumption == max_threads \in Nat \ {0}

VARIABLES
    scenario,   \* the one of this behaviour
    st,         \* st[t]: "free", "new", "live", "zombie" (do_exit() done) or "reaped"
    fork,       \* fork[t]: the copy_process() call t is in
    own,        \* own[t]: what t holds alone, by the name of the step that took it
    ptr,        \* ptr[t][k]: t->files, t->fs, t->sighand, t->signal, t->mm
    holds,      \* holds[t]: the kinds of which t has a counted reference
    count,      \* count[k][o]: the reference count of object o of kind k
    nproc,      \* UCOUNT_RLIMIT_NPROC of the user
    nr_threads,
    group_threads,  \* group_threads[s]: nr_threads of signal_struct s
    killed,     \* the signal_structs with a fatal signal pending for all their threads
    pending,    \* the signal_structs with another signal pending
    pid_adding, \* PIDNS_ADDING of the pid namespace
    sent,       \* the signals sent to the process group so far
    seen,       \* seen[s]: those that the process of signal_struct s or its creator got before it
    filter,     \* the tasks with a seccomp filter
    work,       \* the tasks with SYSCALL_WORK_SECCOMP
    real_parent,
    leader,     \* leader[t]: t->group_leader
    rcu_users,
    refs        \* the tasks somebody else holds with get_task_struct()

copyVars == <<own, ptr, holds, count, nproc>>
sigVars == <<killed, pending, sent, seen>>
treeVars == <<nr_threads, group_threads, real_parent, leader, pid_adding>>
secVars == <<filter, work>>
lifeVars == <<rcu_users, refs>>
vars == <<scenario, st, fork, copyVars, sigVars, treeVars, secVars, lifeVars>>

Kinds == {"files", "fs", "sighand", "signal", "mm"}

\* The steps of copy_process() in order; each may fail.
Steps == <<"multiprocess", "sigpending", "dup_task_struct", "creds", "limits", "mempolicy", "perf", "audit",
           "security", "semundo", "files", "fs", "sighand", "signal", "mm", "namespaces", "io", "thread",
           "pid", "pidfd", "cgroup", "publish">>

\* The labels in order, and what the code at each gives back before it falls through to the next.
Labels == <<"bad_fork_cancel_cgroup", "bad_fork_put_pidfd", "bad_fork_free_pid", "bad_fork_cleanup_thread",
            "bad_fork_cleanup_io", "bad_fork_cleanup_namespaces", "bad_fork_cleanup_mm",
            "bad_fork_cleanup_signal", "bad_fork_cleanup_sighand", "bad_fork_cleanup_fs",
            "bad_fork_cleanup_files", "bad_fork_cleanup_semundo", "bad_fork_cleanup_security",
            "bad_fork_cleanup_audit", "bad_fork_cleanup_perf", "bad_fork_cleanup_policy",
            "bad_fork_cleanup_threadgroup_lock", "bad_fork_cleanup_count", "bad_fork_free", "fork_out">>

Gives == <<{"cgroup"}, {"pidfd"}, {"pid"}, {"thread"}, {"io"}, {"namespaces"}, {"mm"}, {"signal"}, {"sighand"},
           {"fs"}, {"files"}, {"semundo"}, {"security"}, {"audit"}, {"perf"}, {"mempolicy"}, {}, {"creds"},
           {"stack", "task"}, {}>>

\* The goto of each step.
FailLabel(s) ==
    CASE s \in {"sigpending", "dup_task_struct"} -> "fork_out"
      [] s = "creds"      -> "bad_fork_free"
      [] s = "limits"     -> "bad_fork_cleanup_count"
      [] s = "mempolicy"  -> "bad_fork_cleanup_threadgroup_lock"
      [] s = "perf"       -> "bad_fork_cleanup_policy"
      [] s = "audit"      -> "bad_fork_cleanup_perf"
      [] s = "security"   -> "bad_fork_cleanup_audit"
      [] s = "semundo"    -> "bad_fork_cleanup_security"
      [] s = "files"      -> "bad_fork_cleanup_semundo"
      [] s = "fs"         -> "bad_fork_cleanup_files"
      [] s = "sighand"    -> "bad_fork_cleanup_fs"
      [] s = "signal"     -> "bad_fork_cleanup_sighand"
      [] s = "mm"         -> "bad_fork_cleanup_signal"
      [] s = "namespaces" -> "bad_fork_cleanup_mm"
      [] s = "io"         -> "bad_fork_cleanup_namespaces"
      [] s = "thread"     -> "bad_fork_cleanup_io"
      [] s = "pid"        -> "bad_fork_cleanup_thread"
      [] s = "pidfd"      -> "bad_fork_free_pid"
      [] s = "cgroup"     -> "bad_fork_put_pidfd"
      [] s = "publish"    -> "bad_fork_cancel_cgroup"

Place(q, e) == CHOOSE i \in 1..Len(q) : q[i] = e
After(s) == Steps[Place(Steps, s) + 1]

\* The flag that makes the child share kind k.
ShareFlag == [files |-> "FILES", fs |-> "FS", sighand |-> "SIGHAND", signal |-> "THREAD", mm |-> "VM"]

NoFork == [at |-> "none", child |-> None, flags |-> {}, delayed |-> {}, base |-> {}]

Init ==
    /\ scenario \in Scenarios
    /\ st = [t \in Tasks |-> IF t = Root THEN "live" ELSE "free"]
    /\ fork = [t \in Tasks |-> NoFork]
    /\ own = [t \in Tasks |-> IF t = Root
                THEN {"task", "stack", "creds", "mempolicy", "perf", "audit", "security", "semundo",
                      "namespaces", "io", "thread", "pid"} ELSE {}]
    /\ ptr = [t \in Tasks |-> [k \in Kinds |-> IF t = Root THEN Root ELSE None]]
    /\ holds = [t \in Tasks |-> IF t = Root THEN Kinds ELSE {}]
    /\ count = [k \in Kinds |-> [o \in Tasks |-> IF o = Root THEN 1 ELSE 0]]
    /\ nproc = 1 /\ nr_threads = 1
    /\ group_threads = [s \in Tasks |-> IF s = Root THEN 1 ELSE 0]
    /\ killed = {} /\ pending = {} /\ pid_adding = TRUE
    /\ sent = {} /\ seen = [s \in Tasks |-> {}]
    /\ filter = {} /\ work = {}
    /\ real_parent = [t \in Tasks |-> None] /\ leader = [t \in Tasks |-> IF t = Root THEN Root ELSE None]
    /\ rcu_users = [t \in Tasks |-> IF t = Root THEN 2 ELSE 0] /\ refs = {}

Published == {t \in Tasks : st[t] \in {"live", "zombie"}}
Signal(t) == ptr[t]["signal"]
Threads(s) == {t \in Published : Signal(t) = s}

\* A structure of kind k that nobody uses; the choice does not matter, that of c itself saves states.
NewObject(k, c) == IF count[k][c] = 0 THEN c ELSE CHOOSE o \in Tasks : count[k][o] = 0

-----------------------------------------------------------------------------
(* The start of copy_process() *)

\* The checks on clone_flags that concern the flags used here; Root is SIGNAL_UNKILLABLE.
FlagsValid(t, flags) ==
    /\ "THREAD" \in flags => "SIGHAND" \in flags
    /\ "SIGHAND" \in flags => "VM" \in flags
    /\ ~({"NEWNS", "FS"} \subseteq flags)
    /\ "PARENT" \in flags => leader[t] # Root
    /\ "PIDFD" \in flags => "THREAD" \notin flags

\* t is about to take step s.
At(t, s) == st[t] = "live" /\ fork[t].at = s
Child(t) == fork[t].child
Flag(t, f) == f \in fork[t].flags
Goto(t, s) == fork' = [fork EXCEPT ![t].at = s]

\* The checks, then the delayed signals are set up under siglock.
multiprocess(t, flags) ==
    /\ Cardinality({u \in Tasks : fork[u] # NoFork}) < scenario.forks
    /\ st[t] = "live" /\ fork[t] = NoFork /\ FlagsValid(t, flags)
    /\ fork' = [fork EXCEPT ![t] = [at |-> "sigpending", child |-> None, flags |-> flags, delayed |-> {},
                                    base |-> seen[Signal(t)]]]
    /\ UNCHANGED <<st, copyVars, sigVars, treeVars, secVars, lifeVars>>

\* fork_out.
fork_out(t) == fork' = [fork EXCEPT ![t] = NoFork]

\* Signals that came before are delivered first, the fork is started again.
task_sigpending(t) ==
    /\ At(t, "sigpending")
    /\ IF Signal(t) \in pending \cup killed THEN fork_out(t) ELSE Goto(t, "dup_task_struct")
    /\ UNCHANGED <<st, copyVars, sigVars, treeVars, secVars, lifeVars>>

\* Bug: the scheduler's reference is not counted.
dup_task_struct_one_user(t) ==
    /\ At(t, "dup_task_struct")
    /\ \/ fork_out(t) /\ UNCHANGED <<st, own, ptr, work, rcu_users>>
       \/ \E c \in Tasks :
            /\ st[c] = "free" /\ c = CHOOSE d \in Tasks : st[d] = "free"
            /\ st' = [st EXCEPT ![c] = "new"]
            /\ own' = [own EXCEPT ![c] = @ \cup {"task", "stack"}]
            /\ ptr' = [ptr EXCEPT ![c] = ptr[t]]
            /\ work' = IF t \in work THEN work \cup {c} ELSE work \ {c}
            /\ rcu_users' = [rcu_users EXCEPT ![c] = 1]
            /\ fork' = [fork EXCEPT ![t].at = "creds", ![t].child = c]
    /\ UNCHANGED <<holds, count, nproc, sigVars, treeVars, filter, refs>>

\* The child is a copy of t, but for the filter; it takes the work flags of this moment.
dup_task_struct(t) ==
    /\ At(t, "dup_task_struct")
    /\ \/ fork_out(t) /\ UNCHANGED <<st, own, ptr, work, rcu_users>>
       \/ \E c \in Tasks :
            /\ st[c] = "free" /\ c = CHOOSE d \in Tasks : st[d] = "free"
            /\ st' = [st EXCEPT ![c] = "new"]
            /\ own' = [own EXCEPT ![c] = @ \cup {"task", "stack"}]
            /\ ptr' = [ptr EXCEPT ![c] = ptr[t]]
            /\ work' = IF t \in work THEN work \cup {c} ELSE work \ {c}
            /\ rcu_users' = [rcu_users EXCEPT ![c] = 2]
            /\ fork' = [fork EXCEPT ![t].at = "creds", ![t].child = c]
    /\ UNCHANGED <<holds, count, nproc, sigVars, treeVars, filter, refs>>

-----------------------------------------------------------------------------
(* Giving back *)

\* From label l down, what is given back: own things, and the structures the child points to.
GivenFrom(t, l) ==
    (UNION {Gives[i] : i \in Place(Labels, l)..Len(Labels)})
      \ (IF Flag(t, "THREAD") THEN {"signal"} ELSE {})

\* mm is only dropped when p->mm is set; the rest is dropped through whatever pointer p has.
Dropped(t, l) ==
    {k \in Kinds \cap GivenFrom(t, l) : ptr[Child(t)][k] # None}

Unwind(t, l) ==
    LET c == Child(t) IN
    /\ count' = [k \in Kinds |-> IF k \in Dropped(t, l) THEN [count[k] EXCEPT ![ptr[c][k]] = @ - 1] ELSE count[k]]
    /\ holds' = [holds EXCEPT ![c] = @ \ Dropped(t, l)]
    /\ own' = [own EXCEPT ![c] = @ \ GivenFrom(t, l)]
    /\ nproc' = IF "creds" \in GivenFrom(t, l) THEN nproc - 1 ELSE nproc
    /\ ptr' = [ptr EXCEPT ![c] = [k \in Kinds |-> None]]
    /\ st' = [st EXCEPT ![c] = "free"]
    /\ rcu_users' = [rcu_users EXCEPT ![c] = 0]
    /\ work' = work \ {c}
    /\ fork_out(t)

\* Sharing needs no memory and does not fail, but for fs while another thread is in exec().
CanFail(t, s) ==
    CASE s \in {"files", "sighand", "signal", "mm"} -> ~Flag(t, ShareFlag[s])
      [] s = "pidfd" -> Flag(t, "PIDFD")
      [] s = "publish" -> ~pid_adding \/ Signal(t) \in killed
      [] OTHER -> s \notin {"none", "sigpending", "dup_task_struct"}

\* Bug: a failed copy_fs() jumps one label too high.
Fail_label_fs(t, s) ==
    /\ At(t, s) /\ CanFail(t, s)
    /\ Unwind(t, IF s = "fs" THEN "bad_fork_cleanup_fs" ELSE FailLabel(s))
    /\ UNCHANGED <<sigVars, treeVars, filter, refs>>

\* A step fails: goto its label.
Fail(t, s) ==
    /\ At(t, s) /\ CanFail(t, s)
    /\ Unwind(t, FailLabel(s))
    /\ UNCHANGED <<sigVars, treeVars, filter, refs>>

-----------------------------------------------------------------------------
(* Taking *)

\* A step that takes something for the child alone.
Take(t, s) ==
    /\ At(t, s)
    /\ own' = [own EXCEPT ![Child(t)] = @ \cup {s}]
    /\ Goto(t, After(s))

OwnSteps == {"mempolicy", "perf", "audit", "security", "semundo", "namespaces", "io", "thread", "pid", "cgroup"}

take(t) ==
    \E s \in OwnSteps :
      /\ Take(t, s)
      /\ UNCHANGED <<st, ptr, holds, count, nproc, sigVars, treeVars, secVars, lifeVars>>

copy_creds(t) ==
    /\ Take(t, "creds")
    /\ nproc' = nproc + 1
    /\ UNCHANGED <<st, ptr, holds, count, sigVars, treeVars, secVars, lifeVars>>

\* The limits are looked at without a lock; RLIMIT_NPROC is a failure like the others.
limits(t) ==
    /\ At(t, "limits") /\ nr_threads < max_threads
    /\ Goto(t, "mempolicy")
    /\ UNCHANGED <<st, copyVars, sigVars, treeVars, secVars, lifeVars>>

\* A shared structure gets one more reference, a copy is a new one with a count of 1.
Share(t, k) ==
    /\ count' = [count EXCEPT ![k][ptr[t][k]] = @ + 1]
    /\ ptr' = [ptr EXCEPT ![Child(t)][k] = ptr[t][k]]
    /\ holds' = [holds EXCEPT ![Child(t)] = @ \cup {k}]

Copy(t, k) ==
    /\ count' = [count EXCEPT ![k][NewObject(k, Child(t))] = 1]
    /\ ptr' = [ptr EXCEPT ![Child(t)][k] = NewObject(k, Child(t))]
    /\ holds' = [holds EXCEPT ![Child(t)] = @ \cup {k}]

copy_files(t) ==
    /\ At(t, "files")
    /\ IF Flag(t, "FILES") THEN Share(t, "files") ELSE Copy(t, "files")
    /\ Goto(t, "fs")
    /\ UNCHANGED <<st, own, nproc, sigVars, treeVars, secVars, lifeVars>>

copy_fs(t) ==
    /\ At(t, "fs")
    /\ IF Flag(t, "FS") THEN Share(t, "fs") ELSE Copy(t, "fs")
    /\ Goto(t, "sighand")
    /\ UNCHANGED <<st, own, nproc, sigVars, treeVars, secVars, lifeVars>>

copy_sighand(t) ==
    /\ At(t, "sighand")
    /\ IF Flag(t, "SIGHAND") THEN Share(t, "sighand") ELSE Copy(t, "sighand")
    /\ Goto(t, "signal")
    /\ UNCHANGED <<st, own, nproc, sigVars, treeVars, secVars, lifeVars>>

\* A thread keeps the pointer it has and gets its reference when it is published.
copy_signal(t) ==
    /\ At(t, "signal")
    /\ IF Flag(t, "THREAD") THEN UNCHANGED <<count, ptr, holds>> ELSE Copy(t, "signal")
    /\ Goto(t, "mm")
    /\ UNCHANGED <<st, own, nproc, sigVars, treeVars, secVars, lifeVars>>

\* p->mm is cleared first, so that a failure leaves no pointer to the creator's.
copy_mm(t) ==
    /\ At(t, "mm")
    /\ IF Flag(t, "VM") THEN Share(t, "mm") ELSE Copy(t, "mm")
    /\ Goto(t, "namespaces")
    /\ UNCHANGED <<st, own, nproc, sigVars, treeVars, secVars, lifeVars>>

\* The descriptor, the file and the copy to user space; the last failure gives both back.
pidfd(t) ==
    /\ At(t, "pidfd")
    /\ own' = [own EXCEPT ![Child(t)] = IF Flag(t, "PIDFD") THEN @ \cup {"pidfd"} ELSE @]
    /\ Goto(t, "cgroup")
    /\ UNCHANGED <<st, ptr, holds, count, nproc, sigVars, treeVars, secVars, lifeVars>>

pidfd_put_user_fails(t) ==
    /\ At(t, "pidfd") /\ Flag(t, "PIDFD")
    /\ Unwind(t, "bad_fork_put_pidfd")
    /\ UNCHANGED <<sigVars, treeVars, filter, refs>>

-----------------------------------------------------------------------------
(* The child becomes visible, under tasklist_lock and siglock *)

\* Bug: the child starts without the signals that came during the fork.
InheritSignals_lost(t, s) ==
    /\ seen' = [seen EXCEPT ![s] = fork[t].base]
    /\ pending' = pending

\* The child process s gets the signals that came during the fork.
InheritSignals(t, s) ==
    /\ seen' = [seen EXCEPT ![s] = fork[t].base \cup fork[t].delayed]
    /\ pending' = IF fork[t].delayed # {} THEN pending \cup {s} ELSE pending

\* Bug: the filter is the one of dup_task_struct().
copy_seccomp_stale(t, c) ==
    /\ filter' = IF c \in work THEN filter \cup {c} ELSE filter \ {c}
    /\ work' = work

\* The filter is that of t at this moment, and the work flag follows it.
copy_seccomp(t, c) ==
    /\ filter' = IF t \in filter THEN filter \cup {c} ELSE filter \ {c}
    /\ work' = IF t \in filter THEN work \cup {c} ELSE work

\* Bug: a fatal signal that came meanwhile is not looked at.
MayPublish_killed(t) == pid_adding

\* No children in a dying pid namespace, none of a task that is being killed.
MayPublish(t) == pid_adding /\ Signal(t) \notin killed

\* CLONE_PARENT and CLONE_THREAD take the parent of t.
real_parent_of(t) == IF Flag(t, "PARENT") \/ Flag(t, "THREAD") THEN real_parent[t] ELSE t

\* A new process.
publish_process(t) ==
    LET c == Child(t) IN
    /\ InheritSignals(t, ptr[c]["signal"])
    /\ group_threads' = [group_threads EXCEPT ![ptr[c]["signal"]] = 1]
    /\ leader' = [leader EXCEPT ![c] = c]
    /\ UNCHANGED <<count, holds>>

\* A new thread of t's group, which now gets its reference to the signal_struct.
publish_thread(t) ==
    LET c == Child(t) IN
    /\ count' = [count EXCEPT !["signal"][Signal(t)] = @ + 1]
    /\ holds' = [holds EXCEPT ![c] = @ \cup {"signal"}]
    /\ group_threads' = [group_threads EXCEPT ![Signal(t)] = @ + 1]
    /\ leader' = [leader EXCEPT ![c] = leader[t]]
    /\ UNCHANGED <<seen, pending>>

publish(t) ==
    LET c == Child(t) IN
    /\ At(t, "publish") /\ MayPublish(t)
    /\ IF Flag(t, "THREAD") THEN publish_thread(t) ELSE publish_process(t)
    /\ real_parent' = [real_parent EXCEPT ![c] = real_parent_of(t)]
    /\ copy_seccomp(t, c)
    /\ nr_threads' = nr_threads + 1
    /\ st' = [st EXCEPT ![c] = "live"]
    /\ own' = [own EXCEPT ![c] = @ \ {"cgroup", "pidfd"}]
    /\ fork' = [fork EXCEPT ![t] = NoFork]
    /\ UNCHANGED <<ptr, nproc, killed, sent, pid_adding, lifeVars>>

-----------------------------------------------------------------------------
(* What the other tasks do meanwhile *)

\* kill(-pgrp): every process of the group, and every fork in progress that has registered.
kill_pgrp(sig) ==
    LET procs == {Signal(t) : t \in Published} IN
    /\ "signal" \in scenario.events /\ sig \notin sent
    /\ sent' = sent \cup {sig}
    /\ seen' = [s \in Tasks |-> IF s \in procs THEN seen[s] \cup {sig} ELSE seen[s]]
    /\ pending' = pending \cup procs
    /\ fork' = [t \in Tasks |-> IF fork[t].at # "none" /\ "THREAD" \notin fork[t].flags
                                THEN [fork[t] EXCEPT !.delayed = @ \cup {sig}] ELSE fork[t]]
    /\ UNCHANGED <<st, copyVars, killed, treeVars, secVars, lifeVars>>

\* t returns to user mode and handles what is pending.
get_signal(t) ==
    /\ st[t] = "live" /\ fork[t] = NoFork /\ Signal(t) \in pending
    /\ pending' = pending \ {Signal(t)}
    /\ UNCHANGED <<st, fork, copyVars, killed, sent, seen, treeVars, secVars, lifeVars>>

\* A fatal signal, or exit_group(), for a whole thread group.
complete_signal(s) ==
    /\ "kill" \in scenario.events /\ s # Signal(Root) /\ Threads(s) # {} /\ s \notin killed
    /\ killed' = killed \cup {s}
    /\ UNCHANGED <<st, fork, copyVars, pending, sent, seen, treeVars, secVars, lifeVars>>

\* zap_pid_ns_processes() ends the namespace.
disable_pid_allocation ==
    /\ "namespace" \in scenario.events /\ pid_adding /\ pid_adding' = FALSE
    /\ UNCHANGED <<st, fork, copyVars, sigVars, nr_threads, group_threads, real_parent, leader, secVars,
                   lifeVars>>

\* seccomp() with SECCOMP_FILTER_FLAG_TSYNC gives all threads of the group a filter.
seccomp_sync_threads(t) ==
    LET group == {u \in Threads(Signal(t)) : st[u] = "live"} IN
    /\ "seccomp" \in scenario.events /\ st[t] = "live" /\ fork[t] = NoFork /\ t \notin filter
    /\ filter' = filter \cup group /\ work' = work \cup group
    /\ UNCHANGED <<st, fork, copyVars, sigVars, treeVars, lifeVars>>

\* do_exit(): files, fs and mm go, and what t held alone but for its task_struct, stack, pid and
\* credentials; its children go to Root.
do_exit(t) ==
    LET gone == {"files", "fs", "mm"} IN
    /\ t # Root /\ st[t] = "live" /\ fork[t] = NoFork
    /\ st' = [st EXCEPT ![t] = "zombie"]
    /\ count' = [k \in Kinds |-> IF k \in gone THEN [count[k] EXCEPT ![ptr[t][k]] = @ - 1] ELSE count[k]]
    /\ holds' = [holds EXCEPT ![t] = @ \ gone]
    /\ own' = [own EXCEPT ![t] = @ \cap {"task", "stack", "creds", "security", "pid"}]
    /\ real_parent' = [u \in Tasks |-> IF real_parent[u] = t THEN Root ELSE real_parent[u]]
    /\ UNCHANGED <<fork, ptr, nproc, sigVars, nr_threads, group_threads, leader, pid_adding, secVars, lifeVars>>

\* release_task(): a leader is reaped last.
release_task(t) ==
    /\ st[t] = "zombie" /\ (leader[t] = t => group_threads[Signal(t)] = 1)
    /\ st' = [st EXCEPT ![t] = "reaped"]
    /\ count' = [count EXCEPT !["sighand"][ptr[t]["sighand"]] = @ - 1]
    /\ holds' = [holds EXCEPT ![t] = @ \ {"sighand"}]
    /\ own' = [own EXCEPT ![t] = @ \ {"pid"}]
    /\ nproc' = nproc - 1 /\ nr_threads' = nr_threads - 1
    /\ group_threads' = [group_threads EXCEPT ![Signal(t)] = @ - 1]
    /\ real_parent' = [real_parent EXCEPT ![t] = None] /\ leader' = [leader EXCEPT ![t] = None]
    /\ filter' = filter \ {t}
    /\ rcu_users' = [rcu_users EXCEPT ![t] = @ - 1]
    /\ UNCHANGED <<fork, ptr, sigVars, pid_adding, work, refs>>

\* finish_task_switch() of the next task on that CPU: put_task_stack() and the scheduler's reference.
finish_task_switch(t) ==
    /\ st[t] \in {"zombie", "reaped"} /\ "stack" \in own[t]
    /\ own' = [own EXCEPT ![t] = @ \ {"stack"}]
    /\ rcu_users' = [rcu_users EXCEPT ![t] = @ - 1]
    /\ UNCHANGED <<st, fork, ptr, holds, count, nproc, sigVars, treeVars, secVars, refs>>

get_task_struct(t) ==
    /\ "refs" \in scenario.events /\ t # Root /\ rcu_users[t] > 0 /\ st[t] # "new" /\ t \notin refs
    /\ refs' = refs \cup {t}
    /\ UNCHANGED <<st, fork, copyVars, sigVars, treeVars, secVars, rcu_users>>

put_task_struct(t) ==
    /\ t \in refs
    /\ refs' = refs \ {t}
    /\ UNCHANGED <<st, fork, copyVars, sigVars, treeVars, secVars, rcu_users>>

\* __put_task_struct(), when rcu_users is 0 after a grace period and nobody else holds t; the last
\* thread frees the signal_struct and what is pending in it.
__put_task_struct(t) ==
    LET freed == {s \in {Signal(t)} : count["signal"][s] = 1} IN
    /\ st[t] = "reaped" /\ rcu_users[t] = 0 /\ t \notin refs
    /\ killed' = killed \ freed /\ pending' = pending \ freed
    /\ seen' = [s \in Tasks |-> IF s \in freed THEN {} ELSE seen[s]]
    /\ count' = [count EXCEPT !["signal"][Signal(t)] = @ - 1]
    /\ holds' = [holds EXCEPT ![t] = @ \ {"signal"}]
    /\ own' = [own EXCEPT ![t] = @ \ {"security", "creds", "task"}]
    /\ ptr' = [ptr EXCEPT ![t] = [k \in Kinds |-> None]]
    /\ work' = work \ {t}
    /\ st' = [st EXCEPT ![t] = "free"]
    /\ UNCHANGED <<fork, nproc, sent, treeVars, filter, lifeVars>>

-----------------------------------------------------------------------------
Step ==
    \/ \E t \in Tasks :
         \/ \E flags \in scenario.flags : multiprocess(t, flags)
         \/ task_sigpending(t) \/ dup_task_struct(t) \/ copy_creds(t) \/ limits(t) \/ take(t)
         \/ copy_files(t) \/ copy_fs(t) \/ copy_sighand(t) \/ copy_signal(t) \/ copy_mm(t)
         \/ pidfd(t) \/ pidfd_put_user_fails(t) \/ publish(t) \/ Fail(t, fork[t].at)
         \/ get_signal(t) \/ seccomp_sync_threads(t) \/ do_exit(t) \/ release_task(t)
         \/ finish_task_switch(t) \/ get_task_struct(t) \/ put_task_struct(t) \/ __put_task_struct(t)
         \/ complete_signal(t)
    \/ \E sig \in Signals : kill_pgrp(sig)
    \/ disable_pid_allocation

Next == Step /\ UNCHANGED scenario

Spec == Init /\ [][Next]_vars

-----------------------------------------------------------------------------
TypeOK ==
    /\ st \in [Tasks -> {"free", "new", "live", "zombie", "reaped"}]
    /\ \A t \in Tasks :
         /\ fork[t].at \in {"none"} \cup {Steps[i] : i \in 2..Len(Steps)}
         /\ fork[t].child \in Tasks \cup {None} /\ fork[t].delayed \subseteq Signals
         /\ own[t] \subseteq {"task", "stack", "creds", "pidfd"} \cup OwnSteps
         /\ holds[t] \subseteq Kinds /\ \A k \in Kinds : ptr[t][k] \in Tasks \cup {None}
    /\ \A k \in Kinds, o \in Tasks : count[k][o] \in 0..Cardinality(Tasks)
    /\ nproc \in 1..Cardinality(Tasks) /\ nr_threads \in 1..Cardinality(Tasks)
    /\ killed \cup pending \cup filter \cup work \cup refs \subseteq Tasks
    /\ rcu_users \in [Tasks -> 0..2] /\ pid_adding \in BOOLEAN

\* Every count is the number of tasks that hold a reference: no path through copy_process(), failed
\* or not, leaks a structure or drops one that belongs to the creator.  A failed fork and a freed task
\* leave nothing behind, and the numbers of tasks are those of the tasks that are there.
CountsExact ==
    /\ \A k \in Kinds, o \in Tasks :
         count[k][o] = Cardinality({t \in Tasks : k \in holds[t] /\ ptr[t][k] = o})
    /\ \A t \in Tasks : st[t] = "free" => own[t] = {} /\ holds[t] = {}
    /\ nproc = Cardinality({t \in Tasks : "creds" \in own[t] /\ st[t] # "reaped"})
    /\ nr_threads = Cardinality(Published)
    /\ \A s \in Tasks : Threads(s) # {} => group_threads[s] = Cardinality(Threads(s))

\* A task_struct outlives what refers to it: the CPU that still runs on its stack, the holders of a
\* reference, its children and the threads it leads.
StructOutlivesUsers ==
    \A t \in Tasks : st[t] = "free" =>
      /\ t \notin refs /\ "stack" \notin own[t]
      /\ \A u \in Published : leader[u] # t /\ real_parent[u] # t

\* A signal to the process group reaches every process of it, also one that was being created: it
\* got it, or its creator did before the fork.
SignalsReachAll == \A t \in Tasks : st[t] = "live" => seen[Signal(t)] = sent

\* The threads of a group share memory and signal handlers and agree on having a seccomp filter,
\* although one may be installed for all of them while a thread is being created; and a task has the
\* work flag exactly when it has a filter.
ThreadsAgree ==
    \A t, u \in {v \in Tasks : st[v] = "live"} :
      /\ t \in filter <=> t \in work
      /\ Signal(t) = Signal(u) => /\ ptr[t]["mm"] = ptr[u]["mm"] /\ ptr[t]["sighand"] = ptr[u]["sighand"]
                                  /\ t \in filter <=> u \in filter

\* A thread group that has been killed does not grow, and nobody appears in a pid namespace that has
\* been closed: a task that is just being created is either there when the signal comes, and gets
\* it, or is not created.
KilledGroupsShrink ==
    [][/\ \A s \in Tasks : s \in killed /\ s \in killed' => Threads(s)' \subseteq Threads(s)
       /\ ~pid_adding => Published' \subseteq Published]_vars
=============================================================================
