----------------------------- MODULE MCHotplug ------------------------------
(***************************************************************************)
(* Instances of Hotplug and of CfsBandwidth, in both of which CPUs come    *)
(* and go, for TLC.  The two share no state: a behaviour is one of Hotplug *)
(* or one of CfsBandwidth, and the other module stays in its initial state. *)
(***************************************************************************)
EXTENDS Hotplug, Integers, TLC

CONSTANTS c1, c2, u1, k1, p1, \* two CPUs, a user task, an unbound and a per-CPU kernel thread
          Root, g1, g2,       \* a chain of task groups
          w1, w2, Writers, NSEC_PER_USEC, U64_MAX, BW_SHIFT, MinPeriod, MaxPeriod \* for CfsBandwidth

VARIABLES scenario, bw, hq, usage, enabled, throttled, timer, bw_online, pc, arg, was, todo

bandwidthVars == <<scenario, bw, hq, usage, enabled, throttled, timer, bw_online, pc, arg, was, todo>>

\* Two hyperthreads of one core.
OtherThread == [c \in CPUs |-> CHOOSE d \in CPUs : d # c]

KindOf == [t \in Tasks |-> CASE t = u1 -> "user" [] t = k1 -> "kthread" [] t = p1 -> "percpu"]
HomeOf == [t \in Tasks |-> IF t = u1 THEN CPUs ELSE {c2}]

Chain == <<Root, g1, g2>>
ParentOf == (g1 :> Root) @@ (g2 :> g1)

Scenario(dfl, cpus, writers, groups, files, us) ==
    [dfl |-> dfl, cpus |-> cpus, writers |-> writers, groups |-> groups, files |-> files, us |-> us]

Nothing == Scenario(FALSE, {}, {}, {}, {}, {})

\* Quotas of a chain of groups while CPUs throttle, come and go; quotas and periods of such a chain;
\* numbers at the limits in the cgroup1 files and in the one of cgroup2.
BandwidthScenarios ==
    {Nothing,
     Scenario(FALSE, {c1, c2}, {w1, w2}, {g1, g2}, {"quota"}, {-1, 2, 4}),
     Scenario(FALSE, {}, {w1, w2}, {g1, g2}, {"quota", "period"}, {2, 4}),
     Scenario(FALSE, {}, {w1, w2}, {Root, g1}, {"quota", "period", "burst"}, {1, 2, 15, 16, 64}),
     Scenario(TRUE, {c1}, {w1}, {g1}, {"max", "burst"}, {-1, 1, 2, 4, 15, 16, 63, 64, 66})}

B == INSTANCE CfsBandwidth WITH
       Order <- Chain, Parent <- ParentOf, Scenarios <- BandwidthScenarios, online <- bw_online

ASSUME CpuAssumption /\ SiblingAssumption /\ TaskAssumption /\ HomeAssumption /\ MaskAssumption
ASSUME B!TreeAssumption /\ B!WidthAssumption

MCInit == Init /\ B!Init
MCNext == \/ scenario = Nothing /\ Next /\ UNCHANGED bandwidthVars
          \/ Init /\ B!Next /\ UNCHANGED vars
MCSpec == MCInit /\ [][MCNext]_<<vars, bandwidthVars>>

\* The next-state relation and the properties of CfsBandwidth do not tell the writers apart.
Symmetry == Permutations(Writers)

\* Installed bandwidths are legal by themselves and in the hierarchy: B!QuotasFit.
QuotasFit == B!QuotasFit

\* Static key, groups and run queues agree on who is limited: B!LimitsAgree.
LimitsAgree == B!LimitsAgree
=============================================================================
