------------------------------- MODULE UClamp -------------------------------
(***************************************************************************)
(* Utilization clamping (kernel/sched/core.c): every run queue keeps, per  *)
(* clamp, buckets that count its runnable tasks and the largest clamp value *)
(* requested in each, so that the clamp of the queue follows from enqueue  *)
(* and dequeue alone.  Clamps are also set for task groups, and the system *)
(* defaults cap both; whoever changes one of these holds uclamp_mutex and  *)
(* walks over the groups and their tasks, one task_rq_lock at a time.      *)
(*                                                                         *)
(* Only fair tasks are counted: the lottery class has no uclamp_enabled.   *)
(* No policy but SCHED_LOTTERY can be asked for (see SchedPolicy), so      *)
(* there are no rt tasks and the default for them is not modelled; a fair  *)
(* task gets clamps of its own from a request with SCHED_FLAG_KEEP_PARAMS. *)
(***************************************************************************)
EXTENDS Integers, FiniteSets, FiniteSetsExt

CONSTANTS
    Task, Cpu,
    Group,      \* task groups, Root among them
    Root,       \* root_task_group
    Parent,     \* the parent of every other group
    Scale,      \* SCHED_CAPACITY_SCALE
    Buckets,    \* UCLAMP_BUCKETS
    Values,     \* clamp values that are asked for
    Attrs,      \* clamp requests of sched_setattr, see AttrType
    MaxAsked,   \* bound of the calls of sched_setattr under way
    NULL

Clamp == {"MIN", "MAX"}

\* The flag for a clamp is not set; -1 resets the clamp.  params: SCHED_FLAG_KEEP_PARAMS is not set.
Keep == -2
AttrType == [MIN : {Keep, -1} \cup Values, MAX : {Keep, -1} \cup Values, reset : BOOLEAN, params : BOOLEAN]

ScaleAssumption ==
    /\ Scale \in Nat \ {0} /\ Buckets \in 1 .. Scale
    /\ Values \subseteq 0 .. Scale /\ Attrs \subseteq AttrType
GroupAssumption == Root \in Group /\ Parent \in [Group \ {Root} -> Group]

VARIABLES
    rq,       \* rq->uclamp and UCLAMP_FLAG_IDLE of every CPU
    task,     \* what the clamps of a task depend on
    tg,       \* the task groups
    default,  \* uclamp_default, the values sysctl_sched_uclamp_util_* hold
    used,     \* the static key sched_uclamp_used
    asked,    \* calls of sched_setattr between uclamp_validate and the lock
    walk      \* progress of the holder of uclamp_mutex

vars == <<rq, task, tg, default, used, asked, walk>>

-----------------------------------------------------------------------------
(* Values and buckets.                                                     *)

\* DIV_ROUND_CLOSEST(SCHED_CAPACITY_SCALE, UCLAMP_BUCKETS)
UCLAMP_BUCKET_DELTA == (Scale + Buckets \div 2) \div Buckets

uclamp_bucket_id(value) == Min({value \div UCLAMP_BUCKET_DELTA, Buckets - 1})

uclamp_none(c) == IF c = "MIN" THEN 0 ELSE Scale

clamp(value, lo, hi) == Min({Max({value, lo}), hi})

uclamp_se(value, user_defined) == [value |-> value, user_defined |-> user_defined]

uclamp_tg_restrict(p, c) ==
    IF p.group = Root THEN p.req[c].value
    ELSE clamp(p.req[c].value, tg[p.group].eff["MIN"], tg[p.group].eff["MAX"])

uclamp_eff_get(p, c) == Min({uclamp_tg_restrict(p, c), default[c]})

uclamp_eff_value(p, c) == IF p.uclamp[c].active THEN p.uclamp[c].value ELSE uclamp_eff_get(p, c)

-----------------------------------------------------------------------------
(* A run queue r and a task p as u = [r, p].                               *)

\* p->uclamp[c] of a task that is not counted; its value is not read.
Inactive == [value |-> 0, active |-> FALSE]

\* With the last task gone the queue keeps its max clamp, and notes it.
uclamp_idle_value(r, c, value) ==
    IF c = "MAX" THEN [r EXCEPT !.uclamp[c].value = value, !.idle = TRUE]
    ELSE [r EXCEPT !.uclamp[c].value = uclamp_none("MIN")]

\* uclamp_rq_set(uclamp_rq_max_value(...))
uclamp_rq_max_value(r, c, value) ==
    LET inUse == {b \in 0 .. Buckets - 1 : r.uclamp[c].bucket[b].tasks # 0}
    IN  IF inUse = {} THEN uclamp_idle_value(r, c, value)
        ELSE [r EXCEPT !.uclamp[c].value = r.uclamp[c].bucket[Max(inUse)].value]

uclamp_rq_inc_id(u, c) ==
    LET value == uclamp_eff_get(u.p, c)
        b == uclamp_bucket_id(value)
        old == u.r.uclamp[c].bucket[b]
        new == [tasks |-> old.tasks + 1, value |-> IF old.tasks = 0 THEN value ELSE Max({old.value, value})]
        reset == IF u.r.idle THEN value ELSE u.r.uclamp[c].value   \* uclamp_idle_reset
    IN  [p |-> [u.p EXCEPT !.uclamp[c] = [value |-> value, active |-> TRUE]],
         r |-> [u.r EXCEPT !.uclamp[c].bucket[b] = new,
                           !.uclamp[c].value = Max({reset, value})]]

\* Bug: uc_se->active is not looked at.
uclamp_rq_dec_id_unchecked(u, c) ==
    LET b == uclamp_bucket_id(u.p.uclamp[c].value)
        old == u.r.uclamp[c].bucket[b]
        tasks == Max({0, old.tasks - 1})
        r == [u.r EXCEPT !.uclamp[c].bucket[b] = [tasks |-> tasks, value |-> IF tasks = 0 THEN 0 ELSE old.value]]
    IN  [p |-> [u.p EXCEPT !.uclamp[c] = Inactive],
         r |-> IF tasks = 0 /\ old.value >= u.r.uclamp[c].value
               THEN uclamp_rq_max_value(r, c, u.p.uclamp[c].value) ELSE r]

\* A task that was queued before sched_uclamp_used is not active.  The value
\* of a bucket goes down only when the bucket becomes empty; that of an empty
\* bucket is not read again, and is 0 here.
uclamp_rq_dec_id(u, c) ==
    LET b == uclamp_bucket_id(u.p.uclamp[c].value)
        old == u.r.uclamp[c].bucket[b]
        tasks == Max({0, old.tasks - 1})
        r == [u.r EXCEPT !.uclamp[c].bucket[b] = [tasks |-> tasks, value |-> IF tasks = 0 THEN 0 ELSE old.value]]
    IN  IF ~ u.p.uclamp[c].active THEN u
        ELSE [p |-> [u.p EXCEPT !.uclamp[c] = Inactive],
              r |-> IF tasks = 0 /\ old.value >= u.r.uclamp[c].value
                    THEN uclamp_rq_max_value(r, c, u.p.uclamp[c].value) ELSE r]

uclamp_enabled(p) == p.class = "fair"

uclamp_rq_inc(u) ==
    IF ~ used \/ ~ uclamp_enabled(u.p) THEN u
    ELSE [uclamp_rq_inc_id(uclamp_rq_inc_id(u, "MIN"), "MAX") EXCEPT !.r.idle = FALSE]

uclamp_rq_dec(u) ==
    IF ~ used \/ ~ uclamp_enabled(u.p) THEN u
    ELSE uclamp_rq_dec_id(uclamp_rq_dec_id(u, "MIN"), "MAX")

uclamp_rq_reinc_id(u, c) ==
    IF ~ u.p.uclamp[c].active THEN u
    ELSE LET again == uclamp_rq_inc_id(uclamp_rq_dec_id(u, c), c)
         IN  IF c = "MAX" THEN [again EXCEPT !.r.idle = FALSE] ELSE again

\* Clamps a utilization by what the queue is asked for.  Max-aggregation can
\* leave the minimum above the maximum.
uclamp_rq_util_with(r, util) ==
    LET lo == r.uclamp["MIN"].value
        hi == r.uclamp["MAX"].value
    IN  IF ~ used THEN util ELSE IF lo >= hi THEN lo ELSE clamp(util, lo, hi)

-----------------------------------------------------------------------------

Commit(cpu, p, u) ==
    /\ rq' = [rq EXCEPT ![cpu] = u.r]
    /\ task' = [task EXCEPT ![p] = u.p]

On(p, new) == [r |-> rq[task[p].cpu], p |-> new]

NoTask ==
    [live |-> FALSE, class |-> "fair", cpu |-> NULL, css |-> Root, group |-> Root, reset |-> FALSE,
     req |-> [c \in Clamp |-> uclamp_se(uclamp_none(c), FALSE)],
     uclamp |-> [c \in Clamp |-> Inactive]]

init_uclamp_rq ==
    [uclamp |-> [c \in Clamp |-> [value |-> uclamp_none(c),
                                  bucket |-> [b \in 0 .. Buckets - 1 |-> [tasks |-> 0, value |-> 0]]]],
     idle |-> TRUE]

\* One task exists at boot; the clamps of the root group and the defaults
\* are the largest possible (init_uclamp).
Init ==
    /\ rq = [cpu \in Cpu |-> init_uclamp_rq]
    /\ \E first \in Task : task = [p \in Task |-> [NoTask EXCEPT !.live = p = first]]
    /\ tg = [g \in Group |-> [online |-> g = Root, req |-> [c \in Clamp |-> Scale],
                                                 eff |-> [c \in Clamp |-> Scale]]]
    /\ default = [c \in Clamp |-> Scale]
    /\ used = FALSE
    /\ asked = {}
    /\ walk = NULL

\* enqueue_task and dequeue_task, for a wake-up, a sleep or half a migration.
enqueue_task(p, cpu) ==
    /\ task[p].live /\ task[p].cpu = NULL
    /\ Commit(cpu, p, uclamp_rq_inc([r |-> rq[cpu], p |-> [task[p] EXCEPT !.cpu = cpu]]))
    /\ UNCHANGED <<tg, default, used, asked, walk>>

dequeue_task(p) ==
    /\ task[p].cpu # NULL
    /\ LET u == uclamp_rq_dec(On(p, task[p]))
       IN  Commit(task[p].cpu, p, [u EXCEPT !.p.cpu = NULL])
    /\ UNCHANGED <<tg, default, used, asked, walk>>

\* dup_task_struct, then uclamp_fork and sched_cgroup_fork.  An exited slot
\* may be taken.
uclamp_fork(t, c) ==
    /\ task[t].live /\ ~ task[c].live
    /\ LET child == [task[t] EXCEPT !.cpu = NULL, !.group = task[t].css, !.reset = FALSE,
                                    !.uclamp = [k \in Clamp |-> Inactive]]
       IN  task' = [task EXCEPT ![c] =
                       IF task[t].reset THEN [child EXCEPT !.req = NoTask.req] ELSE child]
    /\ UNCHANGED <<rq, tg, default, used, asked, walk>>

exit_task(p) ==
    /\ task[p].live /\ task[p].cpu = NULL
    /\ \A a \in asked : a.p # p
    /\ Cardinality({q \in Task : task[q].live}) > 1
    /\ task' = [task EXCEPT ![p] = NoTask]
    /\ UNCHANGED <<rq, tg, default, used, asked, walk>>

\* The clamps asked for and those in force must not contradict each other.
\* p->uclamp_req is read without a lock.
uclamp_validate(p, attr) ==
    LET lo == IF attr["MIN"] = Keep THEN task[p].req["MIN"].value ELSE attr["MIN"]
        hi == IF attr["MAX"] = Keep THEN task[p].req["MAX"].value ELSE attr["MAX"]
    IN  lo = -1 \/ hi = -1 \/ lo <= hi

HasClamp(attr) == \E c \in Clamp : attr[c] # Keep

setattr_validate(p, attr) ==
    /\ task[p].live
    /\ Cardinality(asked) < MaxAsked
    /\ HasClamp(attr) => uclamp_validate(p, attr)
    /\ used' = (used \/ HasClamp(attr))
    /\ asked' = asked \cup {[p |-> p, attr |-> attr]}
    /\ UNCHANGED <<rq, task, tg, default, walk>>

uclamp_reset(attr, c, se) ==
    \/ ~ HasClamp(attr) /\ ~ se.user_defined
    \/ attr[c] = -1

__setscheduler_uclamp(p, attr) ==
    [p EXCEPT !.req = [c \in Clamp |->
        IF attr[c] \notin {Keep, -1} THEN uclamp_se(attr[c], TRUE)
        ELSE IF uclamp_reset(attr, c, p.req[c]) THEN uclamp_se(uclamp_none(c), FALSE)
        ELSE p.req[c]]]

\* __sched_setscheduler under the lock, for SCHED_LOTTERY.  A task of this
\* policy, for which no clamp is asked, only has its flag stored.
setattr_same_policy(p, attr) ==
    /\ task[p].class = "lottery" /\ ~ HasClamp(attr)
    /\ task' = [task EXCEPT ![p].reset = attr.reset]
    /\ UNCHANGED rq

\* Otherwise: dequeue, change, enqueue.  The class is that of the policy.
setattr_change(p, attr) ==
    LET change(q) == [__setscheduler_uclamp(q, attr) EXCEPT
                         !.class = IF attr.params THEN "lottery" ELSE @, !.reset = attr.reset]
    IN  /\ task[p].class = "lottery" => HasClamp(attr)
        /\ IF task[p].cpu = NULL THEN task' = [task EXCEPT ![p] = change(@)] /\ UNCHANGED rq
           ELSE LET out == uclamp_rq_dec(On(p, task[p]))
                IN  Commit(task[p].cpu, p, uclamp_rq_inc([out EXCEPT !.p = change(@)]))

setattr_locked(a) ==
    /\ setattr_same_policy(a.p, a.attr) \/ setattr_change(a.p, a.attr)
    /\ asked' = asked \ {a}
    /\ UNCHANGED <<tg, default, used, walk>>

-----------------------------------------------------------------------------
(* Task groups.                                                            *)

Children(g) == {h \in Group \ {Root} : Parent[h] = g /\ tg[h].online}

\* A walk of cpu_util_update_eff still has to visit `todo'; the tasks of g
\* are being updated, and `pending' were in g when that began.
Walk(todo) == [todo |-> todo, g |-> NULL, pending |-> {}]

EffectiveClamps(g) ==
    LET capped == [c \in Clamp |-> IF g = Root THEN tg[g].req[c]
                                   ELSE Min({tg[g].req[c], tg[Parent[g]].eff[c]})]
    IN  [capped EXCEPT !["MIN"] = Min({@, capped["MAX"]})]

\* The next group.  If its clamps do not change, nothing below it is visited.
cpu_util_update_eff ==
    /\ walk # NULL /\ walk.g = NULL
    /\ \E g \in walk.todo :
          LET eff == EffectiveClamps(g)
          IN  IF eff = tg[g].eff
              THEN walk' = [walk EXCEPT !.todo = @ \ {g}] /\ UNCHANGED tg
              ELSE /\ tg' = [tg EXCEPT ![g].eff = eff]
                   /\ walk' = [todo |-> (walk.todo \ {g}) \cup Children(g), g |-> g,
                               pending |-> {p \in Task : task[p].live /\ task[p].css = g}]
    /\ UNCHANGED <<rq, task, default, used, asked>>

\* uclamp_update_active_tasks: one task of the group, under task_rq_lock.
uclamp_update_active(p) ==
    /\ walk # NULL /\ walk.g # NULL
    /\ task[p].live /\ task[p].css = walk.g /\ p \in walk.pending
    /\ IF task[p].cpu = NULL THEN UNCHANGED <<rq, task>>
       ELSE Commit(task[p].cpu, p, uclamp_rq_reinc_id(uclamp_rq_reinc_id(On(p, task[p]), "MIN"), "MAX"))
    /\ walk' = [walk EXCEPT !.pending = @ \ {p}]
    /\ UNCHANGED <<tg, default, used, asked>>

\* The iterator is at its end: who left the group is not visited.
uclamp_update_active_tasks_end ==
    /\ walk # NULL /\ walk.g # NULL
    /\ \A p \in walk.pending : ~ task[p].live \/ task[p].css # walk.g
    /\ walk' = Walk(walk.todo)
    /\ UNCHANGED <<rq, task, tg, default, used, asked>>

uclamp_mutex_unlock ==
    /\ walk # NULL /\ walk.g = NULL /\ walk.todo = {}
    /\ walk' = NULL
    /\ UNCHANGED <<rq, task, tg, default, used, asked>>

sysctl_sched_uclamp_handler(c, value) ==
    /\ walk = NULL
    /\ value # default[c]
    /\ LET new == [default EXCEPT ![c] = value]
       IN  /\ new["MIN"] <= new["MAX"]
           /\ default' = new
           /\ tg' = [tg EXCEPT ![Root].req = new]   \* uclamp_update_root_tg
    /\ used' = TRUE
    /\ walk' = Walk({Root})
    /\ UNCHANGED <<rq, task, asked>>

cpu_uclamp_write(g, c, value) ==
    /\ walk = NULL
    /\ g # Root /\ tg[g].online
    /\ used' = TRUE
    /\ tg' = [tg EXCEPT ![g].req[c] = value]
    /\ walk' = Walk({g})
    /\ UNCHANGED <<rq, task, default, asked>>

\* sched_create_group (with alloc_uclamp_sched_group), then the walk of
\* cpu_cgroup_css_online.
cpu_cgroup_css_online(g) ==
    /\ walk = NULL
    /\ g # Root /\ ~ tg[g].online /\ tg[Parent[g]].online
    /\ tg' = [tg EXCEPT ![g] = [online |-> TRUE, req |-> [c \in Clamp |-> uclamp_none(c)],
                                eff |-> tg[Parent[g]].eff]]
    /\ walk' = Walk({g})
    /\ UNCHANGED <<rq, task, default, used, asked>>

\* cgroup core has taken p over to group g; sched_move_task follows.
cgroup_attach(p, g) ==
    /\ task[p].live /\ tg[g].online /\ task[p].css # g
    /\ task[p].css = task[p].group
    /\ task' = [task EXCEPT ![p].css = g]
    /\ UNCHANGED <<rq, tg, default, used, asked, walk>>

\* Bug: the task stays counted while its group changes.
sched_move_task_in_place(p) ==
    /\ task[p].css # task[p].group
    /\ task' = [task EXCEPT ![p].group = task[p].css]
    /\ UNCHANGED <<rq, tg, default, used, asked, walk>>

sched_move_task(p) ==
    /\ task[p].css # task[p].group
    /\ IF task[p].cpu = NULL
       THEN task' = [task EXCEPT ![p].group = task[p].css] /\ UNCHANGED rq
       ELSE LET out == uclamp_rq_dec(On(p, task[p]))
            IN  Commit(task[p].cpu, p, uclamp_rq_inc([out EXCEPT !.p.group = task[p].css]))
    /\ UNCHANGED <<tg, default, used, asked, walk>>

Next ==
    \/ \E p \in Task :
          \/ \E cpu \in Cpu : enqueue_task(p, cpu)
          \/ dequeue_task(p) \/ exit_task(p) \/ uclamp_update_active(p) \/ sched_move_task(p)
          \/ \E c \in Task : uclamp_fork(p, c)
          \/ \E attr \in Attrs : setattr_validate(p, attr)
          \/ \E g \in Group : cgroup_attach(p, g)
    \/ \E a \in asked : setattr_locked(a)
    \/ cpu_util_update_eff \/ uclamp_update_active_tasks_end \/ uclamp_mutex_unlock
    \/ \E c \in Clamp, value \in Values :
          \/ sysctl_sched_uclamp_handler(c, value)
          \/ \E g \in Group : cpu_uclamp_write(g, c, value)
    \/ \E g \in Group : cpu_cgroup_css_online(g)

Spec == Init /\ [][Next]_vars

-----------------------------------------------------------------------------
(* Properties.                                                             *)

Counted(cpu, c) == {p \in Task : task[p].cpu = cpu /\ task[p].uclamp[c].active}

TypeOK ==
    /\ \A cpu \in Cpu, c \in Clamp :
          /\ rq[cpu].uclamp[c].value \in 0 .. Scale
          /\ \A b \in 0 .. Buckets - 1 :
                rq[cpu].uclamp[c].bucket[b] \in [tasks : 0 .. Cardinality(Task), value : 0 .. Scale]
    /\ \A p \in Task : /\ task[p].cpu \in Cpu \cup {NULL}
                       /\ \A c \in Clamp : task[p].uclamp[c] \in [value : 0 .. Scale, active : BOOLEAN]
    /\ \A g \in Group : tg[g].req \in [Clamp -> 0 .. Scale] /\ tg[g].eff \in [Clamp -> 0 .. Scale]
    /\ default \in [Clamp -> 0 .. Scale] /\ used \in BOOLEAN

\* Across the moment the static key is turned on, changes of class, group and
\* clamps: a bucket counts exactly the active tasks of the queue whose clamp
\* falls into it, nobody is active off a queue, and the warning in
\* uclamp_rq_dec_id (a bucket without tasks) never fires.
BucketsCountTasks ==
    /\ \A cpu \in Cpu, c \in Clamp, b \in 0 .. Buckets - 1 :
          rq[cpu].uclamp[c].bucket[b].tasks =
              Cardinality({p \in Counted(cpu, c) : uclamp_bucket_id(task[p].uclamp[c].value) = b})
    /\ \A p \in Task, c \in Clamp : task[p].uclamp[c].active => task[p].cpu # NULL

\* The clamp of a queue with counted tasks is that of its highest bucket in
\* use, hence no lower than any of its tasks asked for and in the same
\* bucket as the highest of them.
QueueClampIsMax ==
    \A cpu \in Cpu, c \in Clamp :
        Counted(cpu, c) # {} =>
            LET top == Max({task[p].uclamp[c].value : p \in Counted(cpu, c)})
            IN  /\ rq[cpu].uclamp[c].value >= top
                /\ uclamp_bucket_id(rq[cpu].uclamp[c].value) = uclamp_bucket_id(top)

\* UCLAMP_FLAG_IDLE is set exactly while no task of the queue is counted.
IdleFlagRight == \A cpu \in Cpu : rq[cpu].idle <=> Counted(cpu, "MAX") = {}

\* While no walk is under way, children are capped by their parents, and
\* protection by limit, all the way down.
HierarchyCaps ==
    walk = NULL => \A g \in Group : tg[g].online =>
        /\ tg[g].eff["MIN"] <= tg[g].eff["MAX"]
        /\ g # Root => \A c \in Clamp : tg[g].eff[c] <= tg[Parent[g]].eff[c]

\* The clamps p is counted with are settled: no walk is under way, and p is
\* not halfway between two groups.
Settled(p, c) == walk = NULL /\ task[p].uclamp[c].active /\ task[p].css = task[p].group

\* sysctl_sched_uclamp_handler: "We update all RUNNABLE tasks only when task
\* groups are in use".  The clamp p is counted with is the one it would get
\* now.  Fails for a task in a group that the walk does not visit, because
\* the group's own clamps stay as they are.
ClampsUpToDate ==
    \A p \in Task, c \in Clamp :
        Settled(p, c) => task[p].uclamp[c].value = uclamp_eff_get(task[p], c)

\* What is left of it: every change reaches the maximum of every task, the
\* tasks of the root group, and those that ask for no more than their group
\* gives them anyway; the minimum of any other task stays between what its
\* group gives and what the group lets it ask for.
GroupClampsReachTasks ==
    \A p \in Task, c \in Clamp :
        Settled(p, c) =>
            LET t == task[p]
                given == tg[t.group].eff["MIN"]
            IN  IF c = "MAX" \/ t.group = Root \/ t.req["MIN"].value <= given
                THEN t.uclamp[c].value = uclamp_eff_get(t, c)
                ELSE t.uclamp[c].value \in given .. uclamp_tg_restrict(t, c)

\* The frequency chosen for a queue honours the boost of every counted task,
\* even where minimum and maximum are inverted.
BoostHonoured ==
    \A cpu \in Cpu, util \in Values : \A p \in Counted(cpu, "MIN") :
        used => uclamp_rq_util_with(rq[cpu], util) >= task[p].uclamp["MIN"].value

\* What a queue shows of the clamps is what its tasks ask for: its buckets, its clamp, its idle flag
\* and the frequency chosen from them.
QueueClamps == BucketsCountTasks /\ QueueClampIsMax /\ IdleFlagRight /\ BoostHonoured

\* A change of a group, of the defaults or of a task's group has reached the groups below and their
\* runnable tasks, except for the minimum a task itself asks for, once whoever made it is done.
ClampsFollow == HierarchyCaps /\ GroupClampsReachTasks
=============================================================================
