---------------------------- MODULE CfsBandwidth ----------------------------
(***************************************************************************)
(* Quota, period and burst of task groups: several writers of the cgroup   *)
(* files read the values they leave alone, check the new ones against the  *)
(* limits and the hierarchy under cfs_constraints_mutex, and install them  *)
(* on the run queue of every CPU, while those throttle and CPUs come and   *)
(* go.                                                                     *)
(*                                                                         *)
(* From tg_set_cfs_bandwidth() to cpu_max_write() of kernel/sched/core.c.  *)
(* 64-bit numbers are numbers up to U64_MAX; the run queues, the period    *)
(* timer and hotplug (kernel/sched/fair.c, not in the repository) are      *)
(* modelled by what they do to the state that core.c shares with them.     *)
(***************************************************************************)
EXTENDS Integers, Sequences, FiniteSets, SequencesExt

CONSTANTS
    Order,          \* the task groups, in the order of walk_tg_tree(); the root first
    Parent,         \* Parent[g] for the others
    CPUs, Writers,
    NSEC_PER_USEC, U64_MAX, BW_SHIFT,
    MinPeriod, MaxPeriod,   \* min_cfs_quota_period, max_cfs_quota_period
    Scenarios       \* what happens in a behaviour: dfl (cgroup_subsys_on_dfl(): the cgroup2 hierarchy),
                    \* cpus (the CPUs there are), writers, groups (those that are written to), files (some of
                    \* "quota", "period", "burst", "max") and us (the numbers that are written)

Groups == Range(Order)
TopGroup == Order[1]
RUNTIME_INF == U64_MAX
Max_Bw == (U64_MAX + 1) \div 2^BW_SHIFT - 1
max_cfs_runtime == Max_Bw * NSEC_PER_USEC

TreeAssumption == \A i \in 2..Len(Order) : \E j \in 1..(i - 1) : Parent[Order[i]] = Order[j]
WidthAssumption ==
    /\ MinPeriod >= NSEC_PER_USEC /\ MinPeriod <= MaxPeriod /\ MaxPeriod <= U64_MAX
    /\ max_cfs_runtime < U64_MAX /\ \A s \in Scenarios : s.us \subseteq Int
    /\ (Max_Bw * 2^BW_SHIFT) \div (MinPeriod \div NSEC_PER_USEC) <= U64_MAX \div 2

VARIABLES
    scenario,   \* the one of this behaviour
    bw,         \* bw[g]: period, quota and burst in nanoseconds
    hq,         \* hq[g]: hierarchical_quota, signed
    usage,      \* the count of cfs_bandwidth_used()
    enabled,    \* enabled[g][c]: cfs_rq->runtime_enabled
    throttled,  \* throttled[g][c]: cfs_rq->throttled
    timer,      \* timer[g]: cfs_b->period_active
    online,     \* the online CPUs
    pc,         \* pc[w]: "idle", "lock", "set", "cpus" or "end"
    arg,        \* arg[w]: the group and the values of tg_set_cfs_bandwidth()
    was,        \* was[w]: runtime_was_enabled
    todo        \* todo[w]: the CPUs for_each_online_cpu() has not reached

vars == <<scenario, bw, hq, usage, enabled, throttled, timer, online, pc, arg, was, todo>>
writerVars == <<pc, arg, was, todo>>
rqVars == <<usage, enabled, throttled, timer, online>>

NoArg == [tg |-> TopGroup, period |-> 0, quota |-> 0, burst |-> 0]

Init ==
    /\ scenario \in Scenarios
    /\ bw = [g \in Groups |-> [period |-> MaxPeriod, quota |-> RUNTIME_INF, burst |-> 0]]
    /\ hq = [g \in Groups |-> -1] /\ usage = 0
    /\ enabled = [g \in Groups |-> [c \in CPUs |-> FALSE]]
    /\ throttled = [g \in Groups |-> [c \in CPUs |-> FALSE]]
    /\ timer = [g \in Groups |-> FALSE] /\ online = scenario.cpus
    /\ pc = [w \in Writers |-> "idle"] /\ arg = [w \in Writers |-> NoArg]
    /\ was = [w \in Writers |-> FALSE] /\ todo = [w \in Writers |-> {}]

-----------------------------------------------------------------------------
(* The files: what a written number asks for, nothing if it is refused at once *)

u64(n) == n % (U64_MAX + 1)
s64(n) == IF n > U64_MAX \div 2 THEN n - (U64_MAX + 1) ELSE n

FitsInNs(us) == u64(us) <= U64_MAX \div NSEC_PER_USEC

Request(g, period, quota, burst) == {[tg |-> g, period |-> period, quota |-> quota, burst |-> burst]}

tg_set_cfs_quota(g, us) ==
    LET b == bw[g] IN
    IF us < 0 THEN Request(g, b.period, RUNTIME_INF, b.burst)
    ELSE IF FitsInNs(us) THEN Request(g, b.period, u64(us * NSEC_PER_USEC), b.burst) ELSE {}

tg_set_cfs_period(g, us) ==
    IF FitsInNs(us) THEN Request(g, u64(u64(us) * NSEC_PER_USEC), bw[g].quota, bw[g].burst) ELSE {}

tg_set_cfs_burst(g, us) ==
    IF FitsInNs(us) THEN Request(g, bw[g].period, bw[g].quota, u64(u64(us) * NSEC_PER_USEC)) ELSE {}

tg_get_cfs_quota(b) == IF b.quota = RUNTIME_INF THEN -1 ELSE b.quota \div NSEC_PER_USEC
tg_get_cfs_period(b) == b.period \div NSEC_PER_USEC
tg_get_cfs_burst(b) == b.burst \div NSEC_PER_USEC

\* "<quota> <period>" or "max <period>" in one file; these products are not checked.
cpu_max_write(g, us, per) ==
    Request(g, u64(u64(per) * NSEC_PER_USEC),
            IF us < 0 THEN RUNTIME_INF ELSE u64(u64(us) * NSEC_PER_USEC), bw[g].burst)

\* The checks at the head of tg_set_cfs_bandwidth().
InLimits(a) ==
    /\ a.tg # TopGroup
    /\ a.quota >= MinPeriod /\ a.period >= MinPeriod /\ a.period <= MaxPeriod
    /\ a.quota # RUNTIME_INF => /\ a.quota <= max_cfs_runtime
                                /\ a.burst <= a.quota /\ u64(a.burst + a.quota) <= max_cfs_runtime

MayWrite(w, file) == pc[w] = "idle" /\ file \in scenario.files

\* A call with one of these requests, if it is within the limits.
Call(w, requests) ==
    /\ \E a \in requests : InLimits(a) /\ arg' = [arg EXCEPT ![w] = a]
    /\ pc' = [pc EXCEPT ![w] = "lock"]
    /\ UNCHANGED <<bw, hq, rqVars, was, todo>>

cpu_cfs_quota_write_s64(w, g, us) == MayWrite(w, "quota") /\ Call(w, tg_set_cfs_quota(g, us))
cpu_cfs_period_write_u64(w, g, us) == MayWrite(w, "period") /\ Call(w, tg_set_cfs_period(g, us))
cpu_cfs_burst_write_u64(w, g, us) == MayWrite(w, "burst") /\ Call(w, tg_set_cfs_burst(g, us))
cpu_max_file_write(w, g, us, per) == MayWrite(w, "max") /\ Call(w, cpu_max_write(g, us, per))

-----------------------------------------------------------------------------
(* The hierarchy *)

to_ratio(period, runtime) ==
    CASE runtime = RUNTIME_INF -> 2^BW_SHIFT
      [] period = 0 -> 0
      [] OTHER -> u64(runtime * 2^BW_SHIFT) \div period

\* In microseconds; the group that is being changed counts with its new values.
normalize_cfs_quota(g, a) ==
    LET b == IF g = a.tg THEN [period |-> a.period, quota |-> a.quota, burst |-> a.burst] ELSE bw[g] IN
    IF b.quota = RUNTIME_INF THEN RUNTIME_INF ELSE to_ratio(tg_get_cfs_period(b), tg_get_cfs_quota(b))

\* One group of the walk: s is the quotas found so far, and whether all of them fit.
tg_cfs_schedulable_down(s, g, a) ==
    IF g = TopGroup THEN [s EXCEPT !.hq[g] = s64(RUNTIME_INF)]
    ELSE LET quota == s64(normalize_cfs_quota(g, a))
             parent_quota == s.hq[Parent[g]] IN
         CASE scenario.dfl -> [s EXCEPT !.hq[g] = IF quota < parent_quota THEN quota ELSE parent_quota]
           [] ~scenario.dfl /\ quota = -1 -> [s EXCEPT !.hq[g] = parent_quota]
           [] ~scenario.dfl /\ quota # -1 /\ parent_quota # -1 /\ quota > parent_quota -> [s EXCEPT !.fits = FALSE]
           [] OTHER -> [s EXCEPT !.hq[g] = quota]

\* Bug: children are visited before their parents.
WalkOrder_reversed == Reverse(Order)

WalkOrder == Order

\* walk_tg_tree(tg_cfs_schedulable_down, tg_nop): parents first, up to the first that does not fit.
__cfs_schedulable(a) ==
    FoldLeft(LAMBDA s, g : IF s.fits THEN tg_cfs_schedulable_down(s, g, a) ELSE s, [hq |-> hq, fits |-> TRUE], WalkOrder)

-----------------------------------------------------------------------------
(* tg_set_cfs_bandwidth() *)

Locked == \E w \in Writers : pc[w] \in {"set", "cpus", "end"}

\* The mutex and the walk; off -> on is counted before anything else changes.
cfs_constraints_lock(w) ==
    LET a == arg[w]
        s == __cfs_schedulable(a)
        on == a.quota # RUNTIME_INF
        wasOn == bw[a.tg].quota # RUNTIME_INF IN
    /\ pc[w] = "lock" /\ ~Locked
    /\ hq' = s.hq
    /\ IF s.fits
       THEN /\ pc' = [pc EXCEPT ![w] = "set"] /\ was' = [was EXCEPT ![w] = wasOn]
            /\ usage' = IF on /\ ~wasOn THEN usage + 1 ELSE usage
            /\ UNCHANGED arg
       ELSE pc' = [pc EXCEPT ![w] = "idle"] /\ arg' = [arg EXCEPT ![w] = NoArg] /\ UNCHANGED <<was, usage>>
    /\ UNCHANGED <<bw, enabled, throttled, timer, online, todo>>

\* The values, under cfs_b->lock, and the period timer.
set_bandwidth(w) ==
    LET a == arg[w] IN
    /\ pc[w] = "set"
    /\ bw' = [bw EXCEPT ![a.tg] = [period |-> a.period, quota |-> a.quota, burst |-> a.burst]]
    /\ timer' = IF a.quota # RUNTIME_INF THEN [timer EXCEPT ![a.tg] = TRUE] ELSE timer
    /\ todo' = [todo EXCEPT ![w] = online]
    /\ pc' = [pc EXCEPT ![w] = "cpus"]
    /\ UNCHANGED <<hq, usage, enabled, throttled, online, arg, was>>

\* One run queue, under its lock.
set_runtime_enabled(w, c) ==
    LET g == arg[w].tg IN
    /\ pc[w] = "cpus" /\ c \in todo[w]
    /\ enabled' = [enabled EXCEPT ![g][c] = arg[w].quota # RUNTIME_INF]
    /\ throttled' = [throttled EXCEPT ![g][c] = FALSE]
    /\ todo' = [todo EXCEPT ![w] = @ \ {c}]
    /\ UNCHANGED <<bw, hq, usage, timer, online, pc, arg, was>>

\* Bug: on -> off is counted while run queues are still limited.
cfs_bandwidth_usage_dec_early(w) ==
    /\ pc[w] = "cpus"
    /\ usage' = IF was[w] /\ arg[w].quota = RUNTIME_INF THEN usage - 1 ELSE usage
    /\ was' = [was EXCEPT ![w] = FALSE]
    /\ pc' = [pc EXCEPT ![w] = IF todo[w] = {} THEN "end" ELSE @]
    /\ UNCHANGED <<bw, hq, enabled, throttled, timer, online, arg, todo>>

\* On -> off is counted after the last run queue.
cfs_bandwidth_usage_dec(w) ==
    /\ pc[w] = "cpus" /\ todo[w] = {}
    /\ usage' = IF was[w] /\ arg[w].quota = RUNTIME_INF THEN usage - 1 ELSE usage
    /\ pc' = [pc EXCEPT ![w] = "end"]
    /\ UNCHANGED <<bw, hq, enabled, throttled, timer, online, arg, was, todo>>

cfs_constraints_unlock(w) ==
    /\ pc[w] = "end"
    /\ pc' = [pc EXCEPT ![w] = "idle"] /\ arg' = [arg EXCEPT ![w] = NoArg] /\ was' = [was EXCEPT ![w] = FALSE]
    /\ UNCHANGED <<bw, hq, rqVars, todo>>

-----------------------------------------------------------------------------
(* The run queues, the timer and hotplug *)

\* A limited run queue has used up what its group has.
throttle_cfs_rq(g, c) ==
    /\ usage > 0 /\ enabled[g][c] /\ ~throttled[g][c] /\ bw[g].quota # RUNTIME_INF /\ c \in online
    /\ throttled' = [throttled EXCEPT ![g][c] = TRUE] /\ timer' = [timer EXCEPT ![g] = TRUE]
    /\ UNCHANGED <<bw, hq, usage, enabled, online, writerVars>>

\* A period ends: the run queues get new runtime; without a quota or anything to do the timer stops.
sched_cfs_period_timer(g) ==
    /\ timer[g]
    /\ IF bw[g].quota = RUNTIME_INF \/ \A c \in CPUs : ~throttled[g][c]
       THEN timer' = [timer EXCEPT ![g] = FALSE] /\ UNCHANGED throttled
       ELSE throttled' = [throttled EXCEPT ![g] = [c \in CPUs |-> FALSE]] /\ UNCHANGED timer
    /\ UNCHANGED <<bw, hq, usage, enabled, online, writerVars>>

\* cpus_read_lock() from before the mutex to the end of tg_set_cfs_bandwidth().
HotplugMay == ~Locked

rq_offline(c) ==
    /\ HotplugMay /\ c \in online /\ online # {c}
    /\ online' = online \ {c}
    /\ enabled' = [g \in Groups |-> [enabled[g] EXCEPT ![c] = FALSE]]
    /\ throttled' = [g \in Groups |-> [throttled[g] EXCEPT ![c] = FALSE]]
    /\ UNCHANGED <<bw, hq, usage, timer, writerVars>>

rq_online(c) ==
    /\ HotplugMay /\ c \in scenario.cpus \ online
    /\ online' = online \cup {c}
    /\ enabled' = [g \in Groups |-> [enabled[g] EXCEPT ![c] = bw[g].quota # RUNTIME_INF]]
    /\ UNCHANGED <<bw, hq, usage, throttled, timer, writerVars>>

-----------------------------------------------------------------------------
Writes(w) ==
    \E g \in scenario.groups, us \in scenario.us :
      \/ cpu_cfs_quota_write_s64(w, g, us) \/ cpu_cfs_period_write_u64(w, g, us) \/ cpu_cfs_burst_write_u64(w, g, us)
      \/ \E per \in scenario.us : cpu_max_file_write(w, g, us, per)

Proceed(w) ==
    \/ cfs_constraints_lock(w) \/ set_bandwidth(w) \/ cfs_bandwidth_usage_dec(w) \/ cfs_constraints_unlock(w)
    \/ \E c \in CPUs : set_runtime_enabled(w, c)

Step ==
    \/ \E w \in scenario.writers : Writes(w) \/ Proceed(w)
    \/ \E g \in Groups : sched_cfs_period_timer(g) \/ \E c \in CPUs : throttle_cfs_rq(g, c)
    \/ \E c \in CPUs : rq_offline(c) \/ rq_online(c)

Next == Step /\ UNCHANGED scenario

Spec == Init /\ [][Next]_vars

-----------------------------------------------------------------------------
TypeOK ==
    /\ \A g \in Groups : {bw[g].period, bw[g].quota, bw[g].burst} \subseteq 0..U64_MAX
    /\ \A g \in Groups : hq[g] \in -1..(U64_MAX \div 2)
    /\ usage \in 0..Cardinality(Groups)
    /\ enabled \in [Groups -> [CPUs -> BOOLEAN]] /\ throttled \in [Groups -> [CPUs -> BOOLEAN]]
    /\ timer \in [Groups -> BOOLEAN] /\ online \subseteq CPUs
    /\ pc \in [Writers -> {"idle", "lock", "set", "cpus", "end"}]
    /\ was \in [Writers -> BOOLEAN] /\ todo \in [Writers -> SUBSET CPUs]

\* Whatever is written, in whatever file, and however the writers' reads interleave, the values that
\* are installed together are within the limits, and the shift in to_ratio() does not overflow.
BandwidthInRange ==
    \A g \in Groups \ {TopGroup} :
      LET b == bw[g] IN
      /\ b.period \in MinPeriod..MaxPeriod
      /\ b.quota # RUNTIME_INF => /\ b.quota \in MinPeriod..max_cfs_runtime /\ b.burst <= b.quota
                                  /\ b.burst + b.quota <= max_cfs_runtime
                                  /\ tg_get_cfs_quota(b) * 2^BW_SHIFT <= U64_MAX

Limited(g) == bw[g].quota # RUNTIME_INF
Ratio(g) == to_ratio(tg_get_cfs_period(bw[g]), tg_get_cfs_quota(bw[g]))
Up == LET index(g) == CHOOSE i \in 1..Len(Order) : Order[i] = g
          up[i \in 1..Len(Order)] == {Order[i]} \cup (IF i = 1 THEN {} ELSE up[index(Parent[Order[i]])]) IN
      [g \in Groups |-> up[index(g)]]

\* On the cgroup1 hierarchy a group's share is never larger than that of a group above it, although
\* the values of the others are read while they are being changed.
HierarchyFits ==
    ~scenario.dfl => \A h \in Groups : \A g \in Up[h] : Limited(g) /\ Limited(h) => Ratio(h) <= Ratio(g)

\* While a run queue is limited cfs_bandwidth_used() says so, and it counts every group with a quota.
KeyCoversUse ==
    /\ \A g \in Groups, c \in CPUs : enabled[g][c] \/ throttled[g][c] => usage > 0
    /\ usage >= Cardinality({g \in Groups : Limited(g)})
    /\ ~Locked => usage = Cardinality({g \in Groups : Limited(g)})

\* Once nobody sets a group, each online CPU knows whether it is limited and no other CPU is.
CpusAgree ==
    \A g \in Groups, c \in CPUs :
      (\A w \in Writers : pc[w] = "cpus" /\ c \in todo[w] => arg[w].tg # g)
        => enabled[g][c] = (c \in online /\ Limited(g))

\* What is installed is legal: every group by itself, and each within the groups above it.
QuotasFit == BandwidthInRange /\ HierarchyFits

\* The static key, the groups and the run queues of the CPUs agree on who is limited.
LimitsAgree == KeyCoversUse /\ CpusAgree
=============================================================================
