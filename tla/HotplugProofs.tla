--------------------------- MODULE HotplugProofs ----------------------------
(***************************************************************************)
(* Proofs about CPU hotplug: for any number of CPUs, cores of one or two   *)
(* hyperthreads and tasks, a CPU that dies has been vacated, it pushes its *)
(* tasks away from balance_push_set() on, and the counters of cores and of *)
(* frozen CPUs survive operations that fail or are reversed half way.      *)
(***************************************************************************)
EXTENDS Hotplug, FiniteSetTheorems, WellFoundedInduction, TLAPS

Assumptions ==
    CpuAssumption /\ SiblingAssumption /\ TaskAssumption /\ MaskAssumption /\ HomeAssumption

OpType == [cpu : CPUs \cup {None}, at : Stages, tasks_frozen : BOOLEAN,
           thread : {"none", "queued", "sync", "wait"}]

\* TypeOK without the ranges of the counters, which follow from what they count.
Fields ==
    /\ active \subseteq online /\ online \subseteq CPUs /\ dying \subseteq CPUs
    /\ rq_online \subseteq CPUs /\ push \subseteq CPUs
    /\ spliced \in [cpu : CPUs \cup {None}, cb : {"push", "other"}]
    /\ smt_present \in Int /\ num_cpus_frozen \in Int
    /\ domains \in {"cpusets", "single"} /\ suspend \in {"no", "freeze", "thaw"} /\ frozen \subseteq CPUs
    /\ hp \in OpType
    /\ readers \subseteq Tasks /\ pinned \subseteq Tasks /\ warned \in BOOLEAN
    /\ curr \in [CPUs -> Tasks \cup {Hp, Stop, Idle}] /\ push_work \in [CPUs -> Tasks \cup {None}]
    /\ state \in [Tasks -> {"sleeping", "woken", "listed", "queued", "parked"}]
    /\ cpu \in [Tasks -> CPUs] /\ mask \in [Tasks -> SUBSET CPUs]

\* Where the hotplug thread can be at each stage.
Operation ==
    /\ hp.cpu = None <=> hp.at = "none"
    /\ hp.cpu = None => hp = NoOp
    /\ hp.thread = "sync" => hp.at = "sync"
    /\ hp.thread = "wait" => hp.at = "wait"
    /\ hp.thread = "none" => hp.at \in {"none", "takedown"}
    /\ hp.at = "takedown" => hp.thread = "none"

\* The stages at which the CPU pushes its tasks away, those after set_rq_offline() and before
\* set_cpu_active(), and those at which suspend has counted the CPU.
Pushes == {"sync", "cpuset", "park", "wait", "takedown"}
Uncounted == {"cpuset", "park", "wait", "takedown", "unpush", "activate"}
Frozen == {"park", "wait", "takedown", "unpush", "activate", "rebuild"}

\* The masks and the callback of each CPU, outside an operation and at each stage of one.
Masks ==
    /\ \A c \in CPUs : c # hp.cpu =>
         /\ c \in active <=> c \in online
         /\ c \in push <=> c \notin online
         /\ c \in dying => c \notin online
    /\ hp.cpu # None =>
         /\ hp.cpu \in online
         /\ hp.cpu \in active <=> hp.at \in {"down", "rebuild"}
         /\ hp.cpu \in push <=> hp.at \in Pushes \cup {"unpush"}
         /\ hp.cpu \in dying <=> hp.at \in Pushes \cup {"down", "push"}
    /\ spliced.cb = "other"
    /\ ~warned

\* A per-CPU thread stays on its CPU, and is parked before that CPU dies.
PerCpuThreads ==
    \A t \in Tasks : Kind[t] = "percpu" =>
      /\ mask[t] = {cpu[t]}
      /\ cpu[t] \notin online => state[t] = "parked"
      /\ hp.cpu = cpu[t] /\ hp.at \in {"wait", "takedown"} => state[t] = "parked"

\* A running task is queued where it runs.  A CPU that has given a task to its stopper does
\* nothing else until that is done, and the task cannot come back in between.
Runners ==
    /\ \A c \in CPUs : curr[c] \in Tasks => state[curr[c]] = "queued" /\ cpu[curr[c]] = c
    /\ \A c \in CPUs : push_work[c] # None =>
         /\ hp.cpu = c /\ hp.at \in Pushes
         /\ curr[c] \in {push_work[c], Stop}
         /\ Kind[push_work[c]] # "percpu"
         /\ cpu[push_work[c]] = c => push_work[c] \notin pinned

\* Nothing is queued, listed, on its way to or pinned on a CPU that is down or about to die; and
\* after the grace period only a task that must can still be on its way to a CPU that pushes.
Vacating ==
    /\ \A t \in Tasks : cpu[t] \notin online =>
         state[t] \in {"sleeping", "parked"} /\ t \notin pinned
    /\ hp.at = "takedown" => \A t \in Tasks : cpu[t] = hp.cpu =>
         state[t] \in {"sleeping", "parked"} /\ t \notin pinned
    /\ hp.at \in Pushes => \A t \in Tasks : state[t] = "woken" /\ cpu[t] = hp.cpu =>
         t \in pinned \/ Kind[t] = "percpu" \/ (hp.thread = "sync" /\ t \in readers)

\* The hyperthreads of cores with both in S.
Pairs(S) == {c \in Cores2 : {c, Sibling[c]} \subseteq S}

Counts ==
    /\ 2 * smt_present =
         Cardinality(Pairs(IF hp.at \in Uncounted THEN online \ {hp.cpu} ELSE online))
    /\ num_cpus_frozen = Cardinality(frozen)
    /\ domains = "single" => frozen # {}
    /\ suspend = "no" => frozen = {}
    /\ hp.cpu # None => (hp.tasks_frozen <=> suspend # "no")
    /\ \A c \in frozen : c \notin online \/ (hp.cpu = c /\ hp.at \in Frozen)
    /\ hp.tasks_frozen /\ hp.at \in Frozen => hp.cpu \in frozen

Inv == Fields /\ Operation /\ Masks /\ PerCpuThreads /\ Runners /\ Vacating /\ Counts

-----------------------------------------------------------------------------
(* Counting cores *)

LEMMA PairsFinite ==
  ASSUME Assumptions, NEW S \in SUBSET CPUs
  PROVE  /\ IsFiniteSet(Pairs(S)) /\ Cardinality(Pairs(S)) \in Nat
         /\ Cardinality(Pairs(S)) <= Cardinality(CPUs) /\ Cardinality(CPUs) \in Nat
<1>1. Pairs(S) \subseteq CPUs /\ IsFiniteSet(CPUs)
  BY DEF Pairs, Cores2, Assumptions, CpuAssumption
<1> QED BY <1>1, FS_Subset, FS_CardinalityType

\* A CPU that leaves takes its core with it if the other hyperthread is there.
LEMMA PairsLeave ==
  ASSUME Assumptions, NEW S \in SUBSET CPUs, NEW c \in S
  PROVE  Cardinality(Pairs(S)) =
           Cardinality(Pairs(S \ {c}))
             + (IF Sibling[c] # c /\ Sibling[c] \in S THEN 2 ELSE 0)
<1> DEFINE P == Pairs(S \ {c})
           d == Sibling[c]
<1>1. IsFiniteSet(P) /\ Cardinality(P) \in Nat
  BY PairsFinite
<1>2. /\ c \in CPUs /\ d \in CPUs /\ Sibling[d] = c
      /\ Sibling \in [CPUs -> CPUs] /\ \A x \in CPUs : Sibling[Sibling[x]] = x
  BY DEF Assumptions, SiblingAssumption
<1>3. c \notin P /\ d \notin P
  BY <1>2 DEF Pairs
<1>4. CASE d # c /\ d \in S
  <2>1. Pairs(S) = (P \cup {c}) \cup {d}
    BY <1>2, <1>4 DEF Pairs, Cores2
  <2>2. IsFiniteSet(P \cup {c}) /\ Cardinality(P \cup {c}) = Cardinality(P) + 1
    BY <1>1, <1>3, FS_AddElement
  <2>3. d \notin P \cup {c}
    BY <1>3, <1>4
  <2>4. Cardinality((P \cup {c}) \cup {d}) = Cardinality(P \cup {c}) + 1
    BY <2>2, <2>3, FS_AddElement
  <2> QED BY <1>1, <1>4, <2>1, <2>2, <2>4
<1>5. CASE ~(d # c /\ d \in S)
  <2>1. Pairs(S) = P
    BY <1>2, <1>5 DEF Pairs, Cores2
  <2> QED BY <1>1, <1>5, <2>1
<1> QED BY <1>4, <1>5

\* The least natural number of a non-empty set.
LEMMA Least ==
  ASSUME NEW S \in SUBSET Nat, S # {}
  PROVE  \E m \in S : \A n \in S : m <= n
<1> DEFINE Less == {pair \in Nat \X Nat : pair[1] < pair[2]}
<1>1. IsWellFoundedOn(Less, Nat)
  BY NatLessThanWellFounded DEF OpToRel
<1> HIDE DEF Less
<1>2. PICK m \in S : \A n \in S : ~ (<<n, m>> \in Less)
  BY <1>1, WFMin
<1>3. \A n \in S : ~ (n < m)
  BY <1>2 DEF Less
<1> QED BY <1>3

\* The hyperthreads come in pairs: in a smallest set of CPUs for which they do not, a CPU can be
\* removed.
LEMMA PairsEven ==
  ASSUME Assumptions
  PROVE  \A S \in SUBSET CPUs : Cardinality(Pairs(S)) % 2 = 0
<1> DEFINE Bad == {S \in SUBSET CPUs : Cardinality(Pairs(S)) % 2 # 0}
           N == {Cardinality(S) : S \in Bad}
<1> SUFFICES ASSUME Bad # {} PROVE FALSE
  OBVIOUS
<1>1. \A S \in SUBSET CPUs : IsFiniteSet(S) /\ Cardinality(S) \in Nat
  BY FS_Subset, FS_CardinalityType DEF Assumptions, CpuAssumption
<1>2. N \in SUBSET Nat /\ N # {}
  BY <1>1
<1>3. PICK m \in N : \A n \in N : m <= n
  BY <1>2, Least
<1>4. PICK S \in Bad : m = Cardinality(S)
  BY <1>3
<1>5. CASE S = {}
  <2>1. Pairs(S) = {}
    BY <1>5 DEF Pairs
  <2> QED BY <1>4, <2>1, FS_EmptySet
<1>6. ASSUME NEW c \in S PROVE FALSE
  <2>1. Cardinality(S \ {c}) = Cardinality(S) - 1
    BY <1>1, <1>4, FS_RemoveElement
  <2>2. S \ {c} \notin Bad
    <3> SUFFICES ASSUME S \ {c} \in Bad PROVE FALSE
      OBVIOUS
    <3>1. Cardinality(S \ {c}) \in N
      OBVIOUS
    <3>2. m <= m - 1 /\ m \in Nat
      BY <1>2, <1>3, <1>4, <2>1, <3>1
    <3> QED BY <3>2
  <2>3. Cardinality(Pairs(S \ {c})) % 2 = 0 /\ Cardinality(Pairs(S \ {c})) \in Nat
    BY <1>4, <2>2, PairsFinite
  <2>4. \/ Cardinality(Pairs(S)) = Cardinality(Pairs(S \ {c}))
        \/ Cardinality(Pairs(S)) = Cardinality(Pairs(S \ {c})) + 2
    <3>1. S \in SUBSET CPUs
      BY <1>4
    <3>2. Cardinality(Pairs(S)) =
            Cardinality(Pairs(S \ {c})) + (IF Sibling[c] # c /\ Sibling[c] \in S THEN 2 ELSE 0)
      BY <3>1, PairsLeave
    <3> HIDE DEF Bad
    <3> QED BY <2>3, <3>2
  <2> QED BY <1>4, <2>3, <2>4
<1> QED BY <1>5, <1>6

-----------------------------------------------------------------------------
(* The initial state *)

LEMMA InitInv ==
  ASSUME Assumptions, Init
  PROVE  Inv
<1>1. /\ \A t \in Tasks : cpu[t] \in CPUs /\ cpu[t] \in Home[t]
      /\ None \notin CPUs /\ IsFiniteSet(CPUs) /\ Cardinality(CPUs) \in Nat
  BY FS_CardinalityType DEF Assumptions, HomeAssumption, CpuAssumption, Init
<1>2. /\ Pairs(CPUs) = Cores2 /\ Cardinality(Cores2) \in Nat
      /\ Cardinality(Cores2) % 2 = 0
  <2>1. Pairs(CPUs) = Cores2
    BY DEF Pairs, Cores2, Assumptions, SiblingAssumption
  <2> QED BY <2>1, PairsFinite, PairsEven
<1>3. 2 * smt_present = Cardinality(Cores2) /\ smt_present \in Int
  BY <1>2 DEF Init
<1>4. hp \in OpType /\ hp.cpu = None /\ hp.at = "none" /\ hp.thread = "none" /\ ~hp.tasks_frozen
  BY DEF Init, NoOp, OpType, Stages
<1>5. Fields
  <2>1. spliced \in [cpu : CPUs \cup {None}, cb : {"push", "other"}]
    BY DEF Init, NoCallback
  <2>2. /\ curr \in [CPUs -> Tasks \cup {Hp, Stop, Idle}] /\ push_work \in [CPUs -> Tasks \cup {None}]
        /\ state \in [Tasks -> {"sleeping", "woken", "listed", "queued", "parked"}]
        /\ cpu \in [Tasks -> CPUs] /\ mask \in [Tasks -> SUBSET CPUs]
    BY DEF Init, Assumptions, HomeAssumption
  <2>3. /\ active \subseteq online /\ online \subseteq CPUs /\ dying \subseteq CPUs
        /\ rq_online \subseteq CPUs /\ push \subseteq CPUs
    BY DEF Init
  <2>4. /\ num_cpus_frozen \in Int /\ domains \in {"cpusets", "single"}
        /\ suspend \in {"no", "freeze", "thaw"} /\ frozen \subseteq CPUs
    BY DEF Init
  <2>5. readers \subseteq Tasks /\ pinned \subseteq Tasks /\ warned \in BOOLEAN
    BY DEF Init
  <2> QED BY <1>3, <1>4, <2>1, <2>2, <2>3, <2>4, <2>5 DEF Fields
<1>6. Operation
  BY <1>4 DEF Init, Operation
<1>7. Masks
  BY <1>1, <1>4 DEF Init, Masks, NoCallback
<1>8. PerCpuThreads
  <2> SUFFICES ASSUME NEW t \in Tasks, Kind[t] = "percpu"
               PROVE  mask[t] = {cpu[t]} /\ cpu[t] \in online
    BY <1>1, <1>4 DEF PerCpuThreads
  <2> QED BY <1>1 DEF Init, Assumptions, HomeAssumption
<1>9. Runners
  BY <1>1 DEF Init, Runners, Assumptions, TaskAssumption
<1>10. Vacating
  BY <1>1, <1>4 DEF Init, Vacating, Pushes
<1>11. Counts
  BY <1>2, <1>3, <1>4, FS_EmptySet DEF Init, Counts, Uncounted, Frozen
<1> QED BY <1>5, <1>6, <1>7, <1>8, <1>9, <1>10, <1>11 DEF Inv

-----------------------------------------------------------------------------
(* Wake-ups, migration and pushing *)

\* The CPU select_task_rq() or select_fallback_rq() chooses for t.
Chosen(t, d) ==
    \/ d \in select_fallback_rq(t)
    \/ \E c \in cpus_ptr(t) : is_cpu_allowed(t, cpus_ptr(t), c) /\ d = <<c, mask[t]>>

\* It is online, it is not a CPU that pushes unless t can be nowhere else, and a pinned task or a
\* per-CPU thread stays where it is.
LEMMA ChosenStays ==
  ASSUME Assumptions, Inv, NEW t \in Tasks, NEW d, Chosen(t, d), state[t] # "parked"
  PROVE  /\ d[1] \in online /\ d[2] \in SUBSET CPUs
         /\ t \in pinned \/ Kind[t] = "percpu" => d[1] = cpu[t] /\ d[2] = mask[t]
         /\ t \notin pinned /\ Kind[t] # "percpu" /\ hp.at \in Pushes => d[1] # hp.cpu
<1>1. /\ active \subseteq online /\ online \subseteq CPUs /\ mask[t] \in SUBSET CPUs
      /\ cpu[t] \in CPUs /\ Cpuset \in SUBSET CPUs
  BY DEF Inv, Fields, Assumptions, MaskAssumption
<1>2. t \notin {Hp, Stop, Idle}
  BY DEF Assumptions, TaskAssumption
<1>3. t \in pinned \/ Kind[t] = "percpu" => cpu[t] \in online /\ cpus_ptr(t) = {cpu[t]}
  BY DEF Inv, Vacating, PerCpuThreads, cpus_ptr
<1>4. \A m, c : is_cpu_allowed(t, m, c) => c \in online
  BY <1>1 DEF is_cpu_allowed
<1>5. hp.at \in Pushes => hp.cpu \notin active /\ hp.cpu \in dying
  BY DEF Inv, Operation, Masks, Pushes
<1>6. t \notin pinned /\ Kind[t] # "percpu" /\ hp.at \in Pushes =>
        \A m, c : is_cpu_allowed(t, m, c) => c # hp.cpu
  BY <1>2, <1>5 DEF is_cpu_allowed, kthread_is_per_cpu
<1>7. t \in pinned \/ Kind[t] = "percpu" => is_cpu_allowed(t, cpus_ptr(t), cpu[t])
  BY <1>2, <1>3 DEF is_cpu_allowed, kthread_is_per_cpu
<1>8. CASE d \in select_fallback_rq(t)
  <2>1. CASE Allowed(t, cpus_ptr(t)) # {}
    <3>1. d[1] \in Allowed(t, cpus_ptr(t)) /\ d[2] = mask[t]
      BY <1>8, <2>1 DEF select_fallback_rq
    <3> QED BY <1>1, <1>3, <1>4, <1>6, <3>1 DEF Allowed
  <2>2. CASE Allowed(t, cpus_ptr(t)) = {}
    <3>1. ~(t \in pinned \/ Kind[t] = "percpu")
      BY <1>3, <1>7, <2>2 DEF Allowed
    <3>2. \/ d[1] \in Allowed(t, Cpuset) /\ d[2] = Cpuset
          \/ d[1] \in Allowed(t, CPUs) /\ d[2] = CPUs
      BY <1>8, <2>2 DEF select_fallback_rq
    <3> QED BY <1>1, <1>4, <1>6, <3>1, <3>2 DEF Allowed
  <2> QED BY <2>1, <2>2
<1>9. CASE \E c \in cpus_ptr(t) : is_cpu_allowed(t, cpus_ptr(t), c) /\ d = <<c, mask[t]>>
  BY <1>1, <1>3, <1>4, <1>6, <1>9
<1> QED BY <1>8, <1>9 DEF Chosen

\* What a step of a task leaves alone.
Unoperated == UNCHANGED <<maskVars, push, spliced, countVars, hp, warned>>

LEMMA UnoperatedKeeps ==
  ASSUME Inv, Unoperated
  PROVE  Operation' /\ Masks' /\ Counts'
BY DEF Inv, Unoperated, maskVars, countVars, Operation, Masks, Counts, Pairs

LEMMA SelectTaskRqKeeps ==
  ASSUME Assumptions, Inv, NEW t \in Tasks, select_task_rq(t)
  PROVE  Inv'
<1>1. PICK d : /\ Chosen(t, d)
               /\ cpu' = [cpu EXCEPT ![t] = d[1]] /\ mask' = [mask EXCEPT ![t] = d[2]]
  BY DEF select_task_rq, Chosen
<1>2. /\ state[t] = "sleeping" /\ state' = [state EXCEPT ![t] = "woken"]
      /\ UNCHANGED <<maskVars, push, spliced, countVars, hp, readers, curr, push_work, pinned, warned>>
  BY DEF select_task_rq
<1>3. /\ d[1] \in online /\ d[2] \in SUBSET CPUs
      /\ t \in pinned \/ Kind[t] = "percpu" => d[1] = cpu[t] /\ d[2] = mask[t]
      /\ t \notin pinned /\ Kind[t] # "percpu" /\ hp.at \in Pushes => d[1] # hp.cpu
  BY <1>1, <1>2, ChosenStays
<1>4. Fields'
  BY <1>1, <1>2, <1>3 DEF Inv, Fields, maskVars, countVars
<1>5. Operation' /\ Masks' /\ Counts'
  BY <1>2, UnoperatedKeeps DEF Unoperated
<1>6. PerCpuThreads'
  BY <1>1, <1>2, <1>3 DEF Inv, Fields, PerCpuThreads, maskVars
<1>7. Runners'
  BY <1>1, <1>2, <1>3 DEF Inv, Fields, Runners, maskVars
<1>8. Vacating'
  BY <1>1, <1>2, <1>3 DEF Inv, Fields, Vacating, PerCpuThreads, Pushes, maskVars
<1> QED BY <1>4, <1>5, <1>6, <1>7, <1>8 DEF Inv

LEMMA TtwuQueueKeeps ==
  ASSUME Assumptions, Inv, NEW t \in Tasks, ttwu_queue(t)
  PROVE  Inv'
<1>1. /\ state[t] = "woken" /\ readers' = readers \ {t}
      /\ \/ state' = [state EXCEPT ![t] = "listed"] \/ state' = [state EXCEPT ![t] = "queued"]
      /\ UNCHANGED <<maskVars, push, spliced, countVars, hp, curr, push_work, cpu, mask, pinned, warned>>
  BY DEF ttwu_queue
<1>2. Fields'
  BY <1>1 DEF Inv, Fields, maskVars, countVars
<1>3. Operation' /\ Masks' /\ Counts'
  BY <1>1, UnoperatedKeeps DEF Unoperated
<1>4. PerCpuThreads'
  BY <1>1 DEF Inv, Fields, PerCpuThreads, maskVars
<1>5. Runners'
  BY <1>1 DEF Inv, Fields, Runners, maskVars
<1>6. Vacating'
  BY <1>1 DEF Inv, Fields, Vacating, maskVars
<1> QED BY <1>2, <1>3, <1>4, <1>5, <1>6 DEF Inv

LEMMA SchedTtwuPendingKeeps ==
  ASSUME Assumptions, Inv, NEW c \in CPUs, sched_ttwu_pending(c)
  PROVE  Inv'
<1>1. /\ state' = [t \in Tasks |-> IF t \in Listed(c) THEN "queued" ELSE state[t]]
      /\ UNCHANGED <<maskVars, push, spliced, countVars, hp, readers, curr, push_work, cpu, mask, pinned,
                     warned>>
      /\ \A t \in Listed(c) : state[t] = "listed"
  BY DEF sched_ttwu_pending, Listed
<1>2. Fields'
  BY <1>1 DEF Inv, Fields, maskVars, countVars
<1>3. Operation' /\ Masks' /\ Counts'
  BY <1>1, UnoperatedKeeps DEF Unoperated
<1>4. PerCpuThreads'
  BY <1>1 DEF Inv, Fields, PerCpuThreads, maskVars
<1>5. Runners'
  BY <1>1 DEF Inv, Fields, Runners, maskVars
<1>6. Vacating'
  BY <1>1 DEF Inv, Fields, Vacating, maskVars
<1> QED BY <1>2, <1>3, <1>4, <1>5, <1>6 DEF Inv

\* A task is pinned or unpinned where it runs, and that CPU is not done.
LEMMA MigrateDisableKeeps ==
  ASSUME Assumptions, Inv, NEW t \in Tasks, migrate_disable(t) \/ migrate_enable(t)
  PROVE  Inv'
<1>1. /\ Runs(t) /\ pinned' \in {pinned \cup {t}, pinned \ {t}}
      /\ UNCHANGED <<maskVars, push, spliced, countVars, hp, readers, curr, push_work, state, cpu,
                     mask, warned>>
  BY DEF migrate_disable, migrate_enable
<1>2. cpu[t] \in CPUs /\ curr[cpu[t]] = t /\ push_work[cpu[t]] = None /\ state[t] = "queued"
  BY <1>1 DEF Runs, Inv, Fields, Runners
<1>3. Fields'
  BY <1>1 DEF Inv, Fields, maskVars, countVars
<1>4. Operation' /\ Masks' /\ Counts'
  BY <1>1, UnoperatedKeeps DEF Unoperated
<1>5. PerCpuThreads'
  BY <1>1 DEF Inv, Fields, PerCpuThreads, maskVars
<1>6. Runners'
  BY <1>1, <1>2 DEF Inv, Fields, Runners, maskVars
<1>7. Vacating'
  BY <1>1, <1>2 DEF Inv, Fields, Vacating, maskVars
<1> QED BY <1>3, <1>4, <1>5, <1>6, <1>7 DEF Inv

LEMMA CanMigrateTaskKeeps ==
  ASSUME Assumptions, Inv, NEW t \in Tasks, can_migrate_task(t)
  PROVE  Inv'
<1>1. PICK d \in (Allowed(t, mask[t]) \cap active) \ {cpu[t]} : cpu' = [cpu EXCEPT ![t] = d]
  BY DEF can_migrate_task
<1>2. /\ state[t] = "queued" /\ curr[cpu[t]] # t /\ t \notin pinned
      /\ UNCHANGED <<maskVars, push, spliced, countVars, hp, readers, curr, push_work, state, mask,
                     pinned, warned>>
  BY DEF can_migrate_task
<1>3. d \in mask[t] /\ d \in active /\ d # cpu[t] /\ d \in CPUs /\ d \in online
  BY <1>1 DEF Allowed, Inv, Fields
<1>4. Kind[t] # "percpu"
  BY <1>3 DEF Inv, PerCpuThreads
<1>5. hp.at \in Pushes => d # hp.cpu
  BY <1>3 DEF Inv, Operation, Masks, Pushes
<1>6. Fields'
  BY <1>1, <1>2, <1>3 DEF Inv, Fields, maskVars, countVars
<1>7. Operation' /\ Masks' /\ Counts'
  BY <1>2, UnoperatedKeeps DEF Unoperated
<1>8. PerCpuThreads'
  BY <1>1, <1>2, <1>4 DEF Inv, Fields, PerCpuThreads, maskVars
<1>9. Runners'
  BY <1>1, <1>2, <1>3, <1>5 DEF Inv, Fields, Runners, maskVars
<1>10. Vacating'
  BY <1>1, <1>2, <1>3, <1>5 DEF Inv, Fields, Vacating, Pushes, maskVars
<1> QED BY <1>6, <1>7, <1>8, <1>9, <1>10 DEF Inv

LEMMA BalancePushCpuStopKeeps ==
  ASSUME Assumptions, Inv, NEW c \in CPUs, __balance_push_cpu_stop(c)
  PROVE  Inv'
<1> DEFINE p == push_work[c]
<1>1. /\ curr[c] = Stop /\ p # None /\ push_work' = [push_work EXCEPT ![c] = None]
      /\ UNCHANGED <<maskVars, push, spliced, countVars, hp, readers, curr, state, pinned, warned>>
  BY DEF __balance_push_cpu_stop
<1>2. /\ p \in Tasks /\ hp.cpu = c /\ hp.at \in Pushes /\ Kind[p] # "percpu"
      /\ cpu[p] = c => p \notin pinned
  BY <1>1 DEF Inv, Fields, Runners
<1>3. CASE UNCHANGED <<cpu, mask>>
  <2>1. Fields'
    BY <1>1, <1>3 DEF Inv, Fields, maskVars, countVars
  <2>2. Operation' /\ Masks' /\ Counts'
    BY <1>1, UnoperatedKeeps DEF Unoperated
  <2>3. PerCpuThreads' /\ Vacating'
    BY <1>1, <1>3 DEF Inv, PerCpuThreads, Vacating, maskVars
  <2>4. Runners'
    BY <1>1, <1>3 DEF Inv, Fields, Runners, maskVars
  <2> QED BY <2>1, <2>2, <2>3, <2>4 DEF Inv
<1>4. ASSUME cpu[p] = c, state[p] = "queued", NEW d \in select_fallback_rq(p),
             cpu' = [cpu EXCEPT ![p] = d[1]], mask' = [mask EXCEPT ![p] = d[2]]
      PROVE  Inv'
  <2>1. d[1] \in online /\ d[2] \in SUBSET CPUs /\ d[1] # c /\ d[1] \in CPUs
    BY <1>2, <1>4, ChosenStays DEF Chosen, Inv, Fields
  <2>2. Fields'
    BY <1>1, <1>2, <1>4, <2>1 DEF Inv, Fields, maskVars, countVars
  <2>3. Operation' /\ Masks' /\ Counts'
    BY <1>1, UnoperatedKeeps DEF Unoperated
  <2>4. PerCpuThreads'
    BY <1>1, <1>2, <1>4 DEF Inv, Fields, PerCpuThreads, maskVars
  <2>5. Runners'
    <3>1. \A e \in CPUs : curr[e] # p
      BY <1>1, <1>2, <1>4 DEF Inv, Runners, Assumptions, TaskAssumption
    <3>2. \A e \in CPUs : e # c => push_work[e] = None
      BY <1>2 DEF Inv, Runners
    <3> QED BY <1>1, <1>2, <1>4, <2>1, <3>1, <3>2 DEF Inv, Fields, Runners, maskVars
  <2>6. Vacating'
    BY <1>1, <1>2, <1>4, <2>1 DEF Inv, Fields, Vacating, maskVars
  <2> QED BY <2>2, <2>3, <2>4, <2>5, <2>6 DEF Inv
<1> QED BY <1>3, <1>4 DEF __balance_push_cpu_stop

\* A CPU that balance_push() works for is the one that goes down.
LEMMA ScheduleKeeps ==
  ASSUME Assumptions, Inv, NEW c \in CPUs, NEW next \in Tasks \cup {Hp, Stop, Idle},
         __schedule(c, next)
  PROVE  Inv'
<1> DEFINE cur == curr[c]
<1>0. /\ Hp \notin Tasks /\ Stop \notin Tasks /\ Idle \notin Tasks /\ None \notin Tasks
      /\ Hp # Stop /\ Idle # Stop /\ Idle # Hp
  BY DEF Assumptions, TaskAssumption
<1>1. PICK sleeps \in BOOLEAN :
        /\ sleeps => cur \in Tasks /\ Runs(cur)
        /\ next \in Tasks => next \in Queued(c) /\ (sleeps => next # cur)
        /\ push_work[c] # None => next = Stop
        /\ state' = IF sleeps THEN [state EXCEPT ![cur] = "sleeping"] ELSE state
        /\ curr' = [curr EXCEPT ![c] = next]
        /\ \E q : balance_push(c, next, q)
  BY <1>0 DEF __schedule, OnRq
<1>2. /\ UNCHANGED <<maskVars, push, spliced, countVars, readers, cpu, mask, pinned, warned>>
      /\ c \in online
  BY DEF __schedule, TaskContext
<1>3. cur \in Tasks => state[cur] = "queued" /\ cpu[cur] = c
  BY DEF Inv, Runners
<1>4. sleeps => push_work[c] = None
  BY <1>1, <1>3 DEF Runs
<1>5. next \in Tasks => state'[next] = "queued" /\ cpu[next] = c
  BY <1>1 DEF Queued, Inv, Fields
<1>6. \/ hp' = hp
      \/ hp.thread = "wait" /\ hp' = [hp EXCEPT !.thread = "queued"]
  BY <1>1 DEF balance_push, WakeHotplugWait
<1>7. /\ hp' \in OpType /\ hp'.cpu = hp.cpu /\ hp'.at = hp.at /\ hp'.tasks_frozen = hp.tasks_frozen
      /\ hp'.thread = "sync" <=> hp.thread = "sync"
      /\ hp'.thread = "none" <=> hp.thread = "none"
      /\ hp'.thread = "wait" => hp.thread = "wait"
      /\ hp.cpu = None => hp' = hp
  BY <1>6 DEF Inv, Fields, OpType, Operation, NoOp
<1>8. \/ push_work' = push_work
      \/ /\ push_work' = [push_work EXCEPT ![c] = next]
         /\ next \in Tasks /\ Kind[next] # "percpu" /\ next \notin pinned
         /\ c \in push /\ c \in dying
  BY <1>1 DEF balance_push, WakeHotplugWait, kthread_is_per_cpu
<1>9. Fields'
  <2>1. /\ curr' \in [CPUs -> Tasks \cup {Hp, Stop, Idle}]
        /\ push_work' \in [CPUs -> Tasks \cup {None}]
        /\ state' \in [Tasks -> {"sleeping", "woken", "listed", "queued", "parked"}]
    BY <1>1, <1>8 DEF Inv, Fields
  <2> QED BY <1>2, <1>7, <2>1 DEF Inv, Fields, maskVars, countVars
<1>10. Operation'
  BY <1>7 DEF Inv, Operation, NoOp
<1>11. Masks' /\ Counts'
  BY <1>2, <1>7 DEF Inv, Masks, Counts, Pairs, maskVars, countVars
<1>12. PerCpuThreads'
  BY <1>1, <1>2, <1>3, <1>7 DEF Inv, Fields, PerCpuThreads, maskVars
<1>13. Runners'
  <2>1. \A e \in CPUs : curr'[e] \in Tasks => state'[curr'[e]] = "queued" /\ cpu'[curr'[e]] = e
    BY <1>1, <1>2, <1>3, <1>5 DEF Inv, Fields, Runners
  <2>2. \A e \in CPUs : push_work[e] # None =>
          /\ hp'.cpu = e /\ hp'.at \in Pushes
          /\ curr'[e] \in {push_work[e], Stop}
          /\ Kind[push_work[e]] # "percpu"
          /\ cpu'[push_work[e]] = e => push_work[e] \notin pinned'
    BY <1>1, <1>2, <1>7 DEF Inv, Fields, Runners
  <2>3. c \in push /\ c \in dying => hp.cpu = c /\ hp.at \in Pushes
    BY <1>2 DEF Inv, Masks, Pushes, Assumptions, CpuAssumption
  <2>4. next \in Tasks /\ push_work' = [push_work EXCEPT ![c] = next] =>
          push_work'[c] = next /\ curr'[c] = next /\ \A e \in CPUs : e # c => push_work'[e] = push_work[e]
    BY <1>1 DEF Inv, Fields
  <2> QED BY <1>2, <1>7, <1>8, <2>1, <2>2, <2>3, <2>4 DEF Runners
<1>14. Vacating'
  BY <1>1, <1>2, <1>3, <1>7 DEF Inv, Fields, Vacating, maskVars
<1> QED BY <1>9, <1>10, <1>11, <1>12, <1>13, <1>14 DEF Inv

\* balance_push_callback is never among the callbacks that are taken off a CPU.
LEMMA CallbacksKeep ==
  ASSUME Assumptions, Inv, balance_callbacks \/ \E c \in CPUs : splice_balance_callbacks(c)
  PROVE  Inv'
<1>1. /\ UNCHANGED <<maskVars, countVars, hp, readers, taskVars, warned, push>>
      /\ spliced' \in [cpu : CPUs \cup {None}, cb : {"push", "other"}] /\ spliced'.cb = "other"
  BY DEF balance_callbacks, splice_balance_callbacks, NoCallback, Inv, Masks
<1>2. Fields'
  BY <1>1 DEF Inv, Fields, maskVars, countVars, taskVars
<1>3. Operation' /\ Masks' /\ Counts'
  BY <1>1 DEF Inv, Operation, Masks, Counts, Pairs, maskVars, countVars
<1>4. PerCpuThreads' /\ Runners' /\ Vacating'
  BY <1>1 DEF Inv, PerCpuThreads, Runners, Vacating, maskVars, taskVars
<1> QED BY <1>2, <1>3, <1>4 DEF Inv

-----------------------------------------------------------------------------
(* Going down *)

\* The operation is at stage s of CPU c, with the hotplug thread in state th.
OpAt(op, c, s, th, frz) ==
    op \in OpType /\ op.cpu = c /\ op.at = s /\ op.thread = th /\ op.tasks_frozen = frz

LEMMA GotoStage ==
  ASSUME Inv, NEW s \in Stages, Goto(s)
  PROVE  OpAt(hp', hp.cpu, s, hp.thread, hp.tasks_frozen)
BY DEF Goto, Inv, Fields, OpType, OpAt

LEMMA NoOpAt == OpAt(NoOp, None, "none", "none", FALSE)
BY DEF NoOp, OpType, OpAt, Stages

\* While the hotplug thread runs, or no operation is under way, no stopper has work.
LEMMA HotplugThreadRuns ==
  ASSUME Assumptions, Inv, NEW c \in CPUs, NEW s, At(c, s)
  PROVE  /\ hp.cpu = c /\ hp.at = s /\ hp.thread = "queued" /\ c # None /\ hp # NoOp
         /\ curr[c] = Hp /\ c \in online /\ \A t \in Tasks : cpu[t] = c => state[t] # "listed"
         /\ \A e \in CPUs : push_work[e] = None
<1>1. /\ hp.cpu = c /\ hp.at = s /\ hp.thread = "queued"
      /\ curr[c] = Hp /\ c \in online /\ \A t \in Tasks : cpu[t] = c => state[t] # "listed"
  BY DEF At, TaskContext, Listed
<1>2. push_work[c] = None
  BY <1>1 DEF Inv, Fields, Runners, Assumptions, TaskAssumption
<1>3. \A e \in CPUs : push_work[e] = None
  BY <1>1, <1>2 DEF Inv, Runners
<1>4. c # None
  BY DEF Assumptions, CpuAssumption
<1> QED BY <1>1, <1>3, <1>4 DEF NoOp

LEMMA NoOpNoWork ==
  ASSUME Assumptions, Inv, hp = NoOp
  PROVE  /\ hp.cpu = None /\ hp.at = "none" /\ None \notin CPUs
         /\ \A e \in CPUs : push_work[e] = None
BY DEF NoOp, Inv, Runners, Assumptions, CpuAssumption

LEMMA CpuDownKeeps ==
  ASSUME Assumptions, Inv, NEW c \in CPUs, cpu_down(c)
  PROVE  Inv'
<1>1. /\ hp = NoOp /\ c \in active /\ c \in online /\ suspend \in {"no", "freeze"}
      /\ dying' = dying \cup {c}
      /\ UNCHANGED <<online, active, rq_online, push, spliced, countVars, readers, taskVars, warned>>
  BY DEF cpu_down, Inv, Fields
<1>2. OpAt(hp', c, "down", "queued", suspend = "freeze")
  BY DEF cpu_down, OpAt, OpType, Stages
<1>3. /\ hp.cpu = None /\ hp.at = "none" /\ None \notin CPUs
      /\ \A e \in CPUs : push_work[e] = None
  BY <1>1, NoOpNoWork
<1>4. Fields'
  BY <1>1, <1>2 DEF Inv, Fields, OpAt, countVars, taskVars
<1>5. Operation' /\ Masks'
  BY <1>1, <1>2, <1>3 DEF Inv, Operation, Masks, OpAt, Pushes
<1>6. PerCpuThreads' /\ Runners' /\ Vacating'
  BY <1>1, <1>2, <1>3 DEF Inv, PerCpuThreads, Runners, Vacating, OpAt, Pushes, taskVars
<1>7. Counts'
  BY <1>1, <1>2, <1>3 DEF Inv, Counts, Pairs, Uncounted, Frozen, OpAt, countVars
<1> QED BY <1>4, <1>5, <1>6, <1>7 DEF Inv

LEMMA SchedCpuDeactivateKeeps ==
  ASSUME Assumptions, Inv, NEW c \in CPUs, sched_cpu_deactivate(c)
  PROVE  Inv'
<1>1. /\ At(c, "down") /\ active' = active \ {c}
      /\ UNCHANGED <<online, dying, rq_online, push, spliced, countVars, readers, taskVars, warned>>
  BY DEF sched_cpu_deactivate
<1>2. /\ hp.cpu = c /\ hp.at = "down" /\ hp.thread = "queued" /\ c # None /\ c \in online
      /\ \A e \in CPUs : push_work[e] = None
  BY <1>1, HotplugThreadRuns
<1>3. OpAt(hp', c, "push", "queued", hp.tasks_frozen)
  BY <1>2, GotoStage DEF sched_cpu_deactivate, Stages
<1>4. Fields'
  BY <1>1, <1>3 DEF Inv, Fields, OpAt, countVars, taskVars
<1>5. Operation' /\ Masks'
  BY <1>1, <1>2, <1>3 DEF Inv, Operation, Masks, OpAt, Pushes
<1>6. PerCpuThreads' /\ Runners' /\ Vacating'
  BY <1>1, <1>2, <1>3 DEF Inv, PerCpuThreads, Runners, Vacating, OpAt, Pushes, taskVars
<1>7. Counts'
  BY <1>1, <1>2, <1>3 DEF Inv, Counts, Pairs, Uncounted, Frozen, OpAt, countVars
<1> QED BY <1>4, <1>5, <1>6, <1>7 DEF Inv

\* synchronize_rcu() will wait for every wake-up that may have chosen the CPU.
LEMMA BalancePushSetOnKeeps ==
  ASSUME Assumptions, Inv, NEW c \in CPUs, balance_push_set_on(c)
  PROVE  Inv'
<1>1. /\ At(c, "push") /\ push' = push \cup {c} /\ warned' = (warned \/ c \in push)
      /\ readers' = {t \in Tasks : state[t] = "woken"}
      /\ UNCHANGED <<maskVars, spliced, countVars, taskVars>>
  BY DEF balance_push_set_on
<1>2. /\ hp.cpu = c /\ hp.at = "push" /\ hp.thread = "queued" /\ c # None /\ c \in online
      /\ \A e \in CPUs : push_work[e] = None
  BY <1>1, HotplugThreadRuns
<1>3. OpAt(hp', c, "sync", "sync", hp.tasks_frozen)
  BY <1>2 DEF balance_push_set_on, Inv, Fields, OpAt, OpType, Stages
<1>4. Fields'
  BY <1>1, <1>3 DEF Inv, Fields, OpAt, maskVars, countVars, taskVars
<1>5. Operation' /\ Masks'
  BY <1>1, <1>2, <1>3 DEF Inv, Operation, Masks, OpAt, Pushes, maskVars
<1>6. PerCpuThreads' /\ Runners' /\ Vacating'
  BY <1>1, <1>2, <1>3 DEF Inv, PerCpuThreads, Runners, Vacating, OpAt, Pushes, maskVars, taskVars
<1>7. Counts'
  BY <1>1, <1>2, <1>3 DEF Inv, Counts, Pairs, Uncounted, Frozen, OpAt, maskVars, countVars
<1> QED BY <1>4, <1>5, <1>6, <1>7 DEF Inv

LEMMA SynchronizeRcuKeeps ==
  ASSUME Assumptions, Inv, synchronize_rcu
  PROVE  Inv'
<1>1. /\ hp.thread = "sync" /\ readers = {} /\ hp.at = "sync" /\ hp.cpu # None
      /\ UNCHANGED <<maskVars, push, spliced, countVars, readers, taskVars, warned>>
  BY DEF synchronize_rcu, Inv, Operation
<1>2. OpAt(hp', hp.cpu, "sync", "queued", hp.tasks_frozen)
  BY <1>1 DEF synchronize_rcu, Inv, Fields, OpAt, OpType
<1>3. Fields'
  BY <1>1, <1>2 DEF Inv, Fields, OpAt, maskVars, countVars, taskVars
<1>4. Operation' /\ Masks'
  BY <1>1, <1>2 DEF Inv, Operation, Masks, OpAt, Pushes, maskVars
<1>5. PerCpuThreads' /\ Runners' /\ Vacating'
  BY <1>1, <1>2 DEF Inv, PerCpuThreads, Runners, Vacating, OpAt, maskVars, taskVars
<1>6. Counts'
  BY <1>1, <1>2 DEF Inv, Counts, Pairs, OpAt, maskVars, countVars
<1> QED BY <1>3, <1>4, <1>5, <1>6 DEF Inv

\* What sched_smt_present counts when c is left out of the online CPUs.
LEMMA SmtCounts ==
  ASSUME Assumptions, Inv, NEW c \in online
  PROVE  Cardinality(Pairs(online)) =
           Cardinality(Pairs(online \ {c})) + (IF BothSiblings(c) THEN 2 ELSE 0)
<1>1. online \in SUBSET CPUs
  BY DEF Inv, Fields
<1>2. BothSiblings(c) <=> Sibling[c] # c /\ Sibling[c] \in online
  BY DEF BothSiblings
<1> QED BY <1>1, <1>2, PairsLeave

LEMMA SchedCpuDeactivateOfflineKeeps ==
  ASSUME Assumptions, Inv, NEW c \in CPUs, sched_cpu_deactivate_offline(c)
  PROVE  Inv'
<1>1. /\ At(c, "sync") /\ rq_online' = rq_online \ {c} /\ sched_smt_present_dec(c)
      /\ UNCHANGED <<online, active, dying, push, spliced, num_cpus_frozen, domains, suspend, frozen,
                     readers, taskVars, warned>>
  BY DEF sched_cpu_deactivate_offline, set_rq_offline
<1>2. /\ hp.cpu = c /\ hp.at = "sync" /\ hp.thread = "queued" /\ c # None /\ c \in online
      /\ \A e \in CPUs : push_work[e] = None
  BY <1>1, HotplugThreadRuns
<1>3. OpAt(hp', c, "cpuset", "queued", hp.tasks_frozen)
  BY <1>2, GotoStage DEF sched_cpu_deactivate_offline, Stages
<1>4. /\ 2 * smt_present = Cardinality(Pairs(online)) /\ smt_present \in Int
      /\ smt_present' \in Int /\ 2 * smt_present' = Cardinality(Pairs(online \ {c}))
  <2>1. 2 * smt_present = Cardinality(Pairs(online)) /\ smt_present \in Int
    BY <1>2 DEF Inv, Fields, Counts, Uncounted
  <2>2. Cardinality(Pairs(online \ {c})) \in Nat
    BY PairsFinite DEF Inv, Fields
  <2>3. Cardinality(Pairs(online)) =
          Cardinality(Pairs(online \ {c})) + (IF BothSiblings(c) THEN 2 ELSE 0)
    BY <1>2, SmtCounts
  <2>4. smt_present' = IF BothSiblings(c) THEN smt_present - 1 ELSE smt_present
    BY <1>1 DEF sched_smt_present_dec
  <2> QED BY <2>1, <2>2, <2>3, <2>4
<1>5. Fields'
  BY <1>1, <1>3, <1>4 DEF Inv, Fields, OpAt, taskVars
<1>6. Operation' /\ Masks'
  BY <1>1, <1>2, <1>3 DEF Inv, Operation, Masks, OpAt, Pushes
<1>7. PerCpuThreads' /\ Runners' /\ Vacating'
  BY <1>1, <1>2, <1>3 DEF Inv, PerCpuThreads, Runners, Vacating, OpAt, Pushes, taskVars
<1>8. Counts'
  BY <1>1, <1>2, <1>3, <1>4 DEF Inv, Counts, Pairs, Uncounted, Frozen, OpAt
<1> QED BY <1>5, <1>6, <1>7, <1>8 DEF Inv

LEMMA CpusetCpuInactiveFailsKeeps ==
  ASSUME Assumptions, Inv, NEW c \in CPUs, cpuset_cpu_inactive_fails(c)
  PROVE  Inv'
<1>1. /\ At(c, "cpuset") /\ ~hp.tasks_frozen /\ sched_smt_present_inc(c)
      /\ push' = push \ {c} /\ active' = active \cup {c} /\ dying' = dying \ {c} /\ hp' = NoOp
      /\ UNCHANGED <<online, rq_online, spliced, num_cpus_frozen, domains, suspend, frozen, readers,
                     taskVars, warned>>
  BY DEF cpuset_cpu_inactive_fails
<1>2. /\ hp.cpu = c /\ hp.at = "cpuset" /\ hp.thread = "queued" /\ c # None /\ c \in online
      /\ \A e \in CPUs : push_work[e] = None
  BY <1>1, HotplugThreadRuns
<1>3. OpAt(hp', None, "none", "none", FALSE) /\ None \notin CPUs
  BY <1>1, NoOpAt DEF Assumptions, CpuAssumption
<1>4. smt_present' \in Int /\ 2 * smt_present' = Cardinality(Pairs(online))
  <2>1. 2 * smt_present = Cardinality(Pairs(online \ {c})) /\ smt_present \in Int
    BY <1>2 DEF Inv, Fields, Counts, Uncounted
  <2>2. Cardinality(Pairs(online)) =
          Cardinality(Pairs(online \ {c})) + (IF BothSiblings(c) THEN 2 ELSE 0)
    BY <1>2, SmtCounts
  <2>3. smt_present' = IF BothSiblings(c) THEN smt_present + 1 ELSE smt_present
    BY <1>1 DEF sched_smt_present_inc
  <2>4. Cardinality(Pairs(online \ {c})) \in Nat
    BY PairsFinite DEF Inv, Fields
  <2> QED BY <2>1, <2>2, <2>3, <2>4
<1>5. Fields'
  BY <1>1, <1>2, <1>3, <1>4 DEF Inv, Fields, OpAt, taskVars
<1>6. Operation' /\ Masks'
  BY <1>1, <1>2, <1>3 DEF Inv, Operation, Masks, OpAt, Pushes
<1>7. PerCpuThreads' /\ Runners' /\ Vacating'
  BY <1>1, <1>2, <1>3 DEF Inv, Fields, PerCpuThreads, Runners, Vacating, OpAt, Pushes, taskVars
<1>8. Counts'
  BY <1>1, <1>2, <1>3, <1>4 DEF Inv, Counts, Pairs, Uncounted, Frozen, OpAt
<1> QED BY <1>5, <1>6, <1>7, <1>8 DEF Inv

LEMMA FrozenFinite ==
  ASSUME Assumptions, Inv
  PROVE  IsFiniteSet(frozen) /\ Cardinality(frozen) \in Nat
           /\ Cardinality(frozen) <= Cardinality(CPUs) /\ Cardinality(CPUs) \in Nat
BY FS_Subset, FS_CardinalityType DEF Inv, Fields, Assumptions, CpuAssumption

LEMMA CpusetCpuInactiveKeeps ==
  ASSUME Assumptions, Inv, NEW c \in CPUs, cpuset_cpu_inactive(c)
  PROVE  Inv'
<1>1. /\ At(c, "cpuset")
      /\ domains' = IF hp.tasks_frozen THEN "single" ELSE "cpusets"
      /\ frozen' = IF hp.tasks_frozen THEN frozen \cup {c} ELSE frozen
      /\ num_cpus_frozen' = IF hp.tasks_frozen THEN num_cpus_frozen + 1 ELSE num_cpus_frozen
      /\ UNCHANGED <<maskVars, push, spliced, smt_present, suspend, readers, taskVars, warned>>
  BY DEF cpuset_cpu_inactive
<1>2. /\ hp.cpu = c /\ hp.at = "cpuset" /\ hp.thread = "queued" /\ c # None /\ c \in online
      /\ \A e \in CPUs : push_work[e] = None
  BY <1>1, HotplugThreadRuns
<1>3. OpAt(hp', c, "park", "queued", hp.tasks_frozen)
  BY <1>2, GotoStage DEF cpuset_cpu_inactive, Stages
<1>4. num_cpus_frozen' = Cardinality(frozen')
  <2>1. c \notin frozen /\ num_cpus_frozen = Cardinality(frozen)
    BY <1>2 DEF Inv, Counts, Frozen
  <2>2. Cardinality(frozen \cup {c}) = Cardinality(frozen) + 1
    BY <2>1, FrozenFinite, FS_AddElement
  <2> QED BY <1>1, <2>1, <2>2
<1>5. Fields'
  BY <1>1, <1>3 DEF Inv, Fields, OpAt, maskVars, taskVars
<1>6. Operation' /\ Masks'
  BY <1>1, <1>2, <1>3 DEF Inv, Operation, Masks, OpAt, Pushes, maskVars
<1>7. PerCpuThreads' /\ Runners' /\ Vacating'
  BY <1>1, <1>2, <1>3 DEF Inv, PerCpuThreads, Runners, Vacating, OpAt, Pushes, maskVars, taskVars
<1>8. Counts'
  BY <1>1, <1>2, <1>3, <1>4 DEF Inv, Fields, OpType, Counts, Pairs, Uncounted, Frozen, OpAt, maskVars
<1> QED BY <1>5, <1>6, <1>7, <1>8 DEF Inv

\* The per-CPU threads stop before the hotplug thread waits.
LEMMA SmpbootParkThreadsKeeps ==
  ASSUME Assumptions, Inv, NEW c \in CPUs, smpboot_park_threads(c)
  PROVE  Inv'
<1>1. /\ At(c, "park") /\ \A t \in PerCpu(c) : state[t] = "sleeping"
      /\ state' = [t \in Tasks |-> IF t \in PerCpu(c) THEN "parked" ELSE state[t]]
      /\ UNCHANGED <<maskVars, push, spliced, countVars, readers, curr, push_work, cpu, mask, pinned,
                     warned>>
  BY DEF smpboot_park_threads
<1>2. /\ hp.cpu = c /\ hp.at = "park" /\ hp.thread = "queued" /\ c # None /\ c \in online
      /\ \A e \in CPUs : push_work[e] = None
  BY <1>1, HotplugThreadRuns
<1>3. OpAt(hp', c, "wait", "queued", hp.tasks_frozen)
  BY <1>2, GotoStage DEF smpboot_park_threads, Stages
<1>4. Fields'
  BY <1>1, <1>3 DEF Inv, Fields, OpAt, maskVars, countVars
<1>5. Operation' /\ Masks'
  BY <1>1, <1>2, <1>3 DEF Inv, Operation, Masks, OpAt, Pushes, maskVars
<1>6. PerCpuThreads'
  BY <1>1, <1>2, <1>3 DEF Inv, PerCpuThreads, PerCpu, OpAt, maskVars
<1>7. Runners'
  BY <1>1, <1>2, <1>3 DEF Inv, Runners, OpAt
<1>8. Vacating'
  BY <1>1, <1>2, <1>3 DEF Inv, Vacating, OpAt, Pushes, maskVars
<1>9. Counts'
  BY <1>1, <1>2, <1>3 DEF Inv, Counts, Pairs, Uncounted, Frozen, OpAt, maskVars, countVars
<1> QED BY <1>4, <1>5, <1>6, <1>7, <1>8, <1>9 DEF Inv

LEMMA CpuhpReverseKeeps ==
  ASSUME Assumptions, Inv, NEW c \in CPUs, cpuhp_reverse(c)
  PROVE  Inv'
<1>1. /\ At(c, "park") \/ At(c, "wait")
      /\ dying' = dying \ {c}
      /\ UNCHANGED <<online, active, rq_online, push, spliced, countVars, readers, taskVars, warned>>
  BY DEF cpuhp_reverse
<1>2. /\ hp.cpu = c /\ hp.at \in {"park", "wait"} /\ hp.thread = "queued" /\ c # None /\ c \in online
      /\ \A e \in CPUs : push_work[e] = None
  BY <1>1, HotplugThreadRuns
<1>3. OpAt(hp', c, "unpush", "queued", hp.tasks_frozen)
  BY <1>2, GotoStage DEF cpuhp_reverse, Stages
<1>4. Fields'
  BY <1>1, <1>3 DEF Inv, Fields, OpAt, countVars, taskVars
<1>5. Operation' /\ Masks'
  BY <1>1, <1>2, <1>3 DEF Inv, Operation, Masks, OpAt, Pushes
<1>6. PerCpuThreads' /\ Runners' /\ Vacating'
  BY <1>1, <1>2, <1>3 DEF Inv, PerCpuThreads, Runners, Vacating, OpAt, Pushes, taskVars
<1>7. Counts'
  <2>1. /\ hp.at \in Uncounted /\ hp.at \in Frozen /\ hp'.at \in Uncounted /\ hp'.at \in Frozen
        /\ hp'.cpu = hp.cpu /\ hp'.tasks_frozen = hp.tasks_frozen
    BY <1>2, <1>3 DEF Uncounted, Frozen, OpAt
  <2> QED BY <1>1, <1>2, <2>1 DEF Inv, Counts, Pairs, countVars
<1> QED BY <1>4, <1>5, <1>6, <1>7 DEF Inv

\* The hotplug thread goes on when it is alone: the CPU is vacated.
LEMMA SchedCpuWaitEmptyKeeps ==
  ASSUME Assumptions, Inv, NEW c \in CPUs, sched_cpu_wait_empty(c)
  PROVE  Inv'
<1>1. /\ At(c, "wait") /\ balance_hotplug_wait(c)
      /\ UNCHANGED <<maskVars, push, spliced, countVars, readers, taskVars, warned>>
  BY DEF sched_cpu_wait_empty
<1>2. /\ hp.cpu = c /\ hp.at = "wait" /\ hp.thread = "queued" /\ c # None /\ c \in online
      /\ \A t \in Tasks : cpu[t] = c => state[t] # "listed"
      /\ \A e \in CPUs : push_work[e] = None
  BY <1>1, HotplugThreadRuns
<1>3. \/ OpAt(hp', c, "wait", "wait", hp.tasks_frozen)
      \/ /\ OpAt(hp', c, "takedown", "none", hp.tasks_frozen)
         /\ OnRq(c) = {Hp} /\ ~rq_has_pinned_tasks(c)
  BY <1>1, <1>2 DEF balance_hotplug_wait, Inv, Fields, OpAt, OpType, Stages
<1>4. OnRq(c) = {Hp} /\ ~rq_has_pinned_tasks(c) =>
        \A t \in Tasks : cpu[t] = c => state[t] \in {"sleeping", "parked"} /\ t \notin pinned
  <2> SUFFICES ASSUME OnRq(c) = {Hp}, ~rq_has_pinned_tasks(c), NEW t \in Tasks, cpu[t] = c
               PROVE  state[t] \in {"sleeping", "parked"} /\ t \notin pinned
    OBVIOUS
  <2>1. t \notin pinned
    BY DEF rq_has_pinned_tasks
  <2>2. state[t] # "queued"
    BY DEF OnRq, Queued, Assumptions, TaskAssumption
  <2>3. state[t] # "woken"
    BY <1>2, <2>1 DEF Inv, Vacating, PerCpuThreads, Pushes
  <2> QED BY <1>2, <2>1, <2>2, <2>3 DEF Inv, Fields
<1>5. Fields'
  BY <1>1, <1>3 DEF Inv, Fields, OpAt, maskVars, countVars, taskVars
<1>6. Operation' /\ Masks'
  BY <1>1, <1>2, <1>3 DEF Inv, Operation, Masks, OpAt, Pushes, maskVars
<1>7. PerCpuThreads' /\ Runners'
  BY <1>1, <1>2, <1>3 DEF Inv, PerCpuThreads, Runners, OpAt, maskVars, taskVars
<1>8. Vacating'
  BY <1>1, <1>2, <1>3, <1>4 DEF Inv, Vacating, OpAt, Pushes, maskVars, taskVars
<1>9. Counts'
  BY <1>1, <1>2, <1>3 DEF Inv, Counts, Pairs, Uncounted, Frozen, OpAt, maskVars, countVars
<1> QED BY <1>5, <1>6, <1>7, <1>8, <1>9 DEF Inv

LEMMA SchedCpuDyingKeeps ==
  ASSUME Assumptions, Inv, NEW c \in CPUs, sched_cpu_dying(c)
  PROVE  Inv'
<1>1. /\ hp.cpu = c /\ hp.at = "takedown" /\ c \in online /\ push_work[c] = None
      /\ warned' = (warned \/ Queued(c) # {} \/ rq_has_pinned_tasks(c))
      /\ online' = online \ {c} /\ curr' = [curr EXCEPT ![c] = Idle] /\ hp' = NoOp
      /\ UNCHANGED <<active, dying, rq_online, push, spliced, countVars, readers, push_work, state,
                     cpu, mask, pinned>>
  BY DEF sched_cpu_dying, TaskContext
<1>2. /\ c # None /\ Idle \notin Tasks
      /\ \A e \in CPUs : push_work[e] = None
  BY <1>1 DEF Inv, Runners, Assumptions, CpuAssumption, TaskAssumption
<1>3. OpAt(hp', None, "none", "none", FALSE) /\ None \notin CPUs
  BY <1>1, NoOpAt DEF Assumptions, CpuAssumption
<1>4. ~warned'
  BY <1>1 DEF Inv, Fields, Masks, Vacating, Queued, rq_has_pinned_tasks
<1>5. Fields'
  BY <1>1, <1>3, <1>4 DEF Inv, Fields, Masks, OpAt, countVars
<1>6. Operation' /\ Masks'
  BY <1>1, <1>2, <1>3, <1>4 DEF Inv, Operation, Masks, OpAt, Pushes
<1>7. PerCpuThreads'
  BY <1>1, <1>2, <1>3 DEF Inv, Fields, PerCpuThreads, OpAt
<1>8. Runners'
  BY <1>1, <1>2, <1>3 DEF Inv, Fields, Runners, OpAt
<1>9. Vacating'
  BY <1>1, <1>2, <1>3 DEF Inv, Fields, Vacating, OpAt, Pushes
<1>10. Counts'
  BY <1>1, <1>2, <1>3 DEF Inv, Counts, Pairs, Uncounted, Frozen, OpAt, countVars
<1> QED BY <1>5, <1>6, <1>7, <1>8, <1>9, <1>10 DEF Inv

-----------------------------------------------------------------------------
(* Coming up *)

LEMMA SchedCpuStartingKeeps ==
  ASSUME Assumptions, Inv, NEW c \in CPUs, sched_cpu_starting(c)
  PROVE  Inv'
<1>1. /\ hp = NoOp /\ c \notin online
      /\ suspend = "no" \/ (suspend = "thaw" /\ c \in frozen)
      /\ online' = online \cup {c} /\ dying' = dying \ {c}
      /\ UNCHANGED <<active, rq_online, push, spliced, countVars, readers, taskVars, warned>>
  BY DEF sched_cpu_starting
<1>2. OpAt(hp', c, "unpush", "queued", suspend = "thaw")
  BY DEF sched_cpu_starting, OpAt, OpType, Stages
<1>3. /\ hp.cpu = None /\ hp.at = "none" /\ None \notin CPUs
      /\ \A e \in CPUs : push_work[e] = None
  BY <1>1, NoOpNoWork
<1>4. Fields'
  BY <1>1, <1>2 DEF Inv, Fields, OpAt, countVars, taskVars
<1>5. Operation' /\ Masks'
  BY <1>1, <1>2, <1>3 DEF Inv, Fields, Operation, Masks, OpAt, Pushes
<1>6. PerCpuThreads' /\ Runners' /\ Vacating'
  BY <1>1, <1>2, <1>3 DEF Inv, PerCpuThreads, Runners, Vacating, OpAt, Pushes, taskVars
<1>7. Counts'
  <2>1. online' \ {c} = online
    BY <1>1
  <2>2. 2 * smt_present = Cardinality(Pairs(online))
    BY <1>3 DEF Inv, Counts, Uncounted
  <2>3. Pairs(online' \ {c}) = Pairs(online)
    BY <2>1
  <2>4. /\ hp'.at \in Uncounted /\ hp'.cpu = c
        /\ 2 * smt_present' = Cardinality(Pairs(online' \ {c}))
    BY <1>1, <1>2, <2>2, <2>3 DEF OpAt, Uncounted, countVars
  <2>5. 2 * smt_present' =
          Cardinality(Pairs(IF hp.at \in Uncounted THEN online \ {hp.cpu} ELSE online)')
    BY <2>4 DEF Pairs
  <2>6. \A e \in frozen' : e \notin online' \/ (hp'.cpu = e /\ hp'.at \in Frozen)
    BY <1>1, <1>2, <1>3 DEF Inv, Counts, Frozen, OpAt, countVars
  <2> QED BY <1>1, <1>2, <1>3, <2>5, <2>6 DEF Inv, Counts, OpAt, countVars
<1> QED BY <1>4, <1>5, <1>6, <1>7 DEF Inv

LEMMA SchedCpuActivateKeeps ==
  ASSUME Assumptions, Inv, NEW c \in CPUs, sched_cpu_activate(c)
  PROVE  Inv'
<1>1. /\ At(c, "unpush") /\ push' = push \ {c}
      /\ state' = [t \in Tasks |-> IF t \in PerCpu(c) /\ state[t] = "parked" THEN "sleeping" ELSE state[t]]
      /\ UNCHANGED <<maskVars, spliced, countVars, readers, curr, push_work, cpu, mask, pinned, warned>>
  BY DEF sched_cpu_activate
<1>2. /\ hp.cpu = c /\ hp.at = "unpush" /\ hp.thread = "queued" /\ c # None /\ c \in online
      /\ \A e \in CPUs : push_work[e] = None
  BY <1>1, HotplugThreadRuns
<1>3. OpAt(hp', c, "activate", "queued", hp.tasks_frozen)
  BY <1>2, GotoStage DEF sched_cpu_activate, Stages
<1>4. Fields'
  BY <1>1, <1>3 DEF Inv, Fields, OpAt, maskVars, countVars
<1>5. Operation' /\ Masks'
  BY <1>1, <1>2, <1>3 DEF Inv, Operation, Masks, OpAt, Pushes, maskVars
<1>6. PerCpuThreads'
  BY <1>1, <1>2, <1>3 DEF Inv, PerCpuThreads, PerCpu, OpAt, maskVars
<1>7. Runners'
  BY <1>1, <1>2, <1>3 DEF Inv, Fields, Runners, OpAt
<1>8. Vacating'
  BY <1>1, <1>2, <1>3 DEF Inv, Fields, Vacating, OpAt, Pushes, maskVars
<1>9. Counts'
  BY <1>1, <1>2, <1>3 DEF Inv, Counts, Pairs, Uncounted, Frozen, OpAt, maskVars, countVars
<1> QED BY <1>4, <1>5, <1>6, <1>7, <1>8, <1>9 DEF Inv

LEMMA SetCpuActiveKeeps ==
  ASSUME Assumptions, Inv, NEW c \in CPUs, set_cpu_active(c)
  PROVE  Inv'
<1>1. /\ At(c, "activate") /\ sched_smt_present_inc(c) /\ active' = active \cup {c}
      /\ UNCHANGED <<online, dying, rq_online, push, spliced, num_cpus_frozen, domains, suspend,
                     frozen, readers, taskVars, warned>>
  BY DEF set_cpu_active
<1>2. /\ hp.cpu = c /\ hp.at = "activate" /\ hp.thread = "queued" /\ c # None /\ c \in online
      /\ \A e \in CPUs : push_work[e] = None
  BY <1>1, HotplugThreadRuns
<1>3. OpAt(hp', c, "rebuild", "queued", hp.tasks_frozen)
  BY <1>2, GotoStage DEF set_cpu_active, Stages
<1>4. smt_present' \in Int /\ 2 * smt_present' = Cardinality(Pairs(online))
  <2>1. 2 * smt_present = Cardinality(Pairs(online \ {c})) /\ smt_present \in Int
    BY <1>2 DEF Inv, Fields, Counts, Uncounted
  <2>2. Cardinality(Pairs(online)) =
          Cardinality(Pairs(online \ {c})) + (IF BothSiblings(c) THEN 2 ELSE 0)
    BY <1>2, SmtCounts
  <2>3. smt_present' = IF BothSiblings(c) THEN smt_present + 1 ELSE smt_present
    BY <1>1 DEF sched_smt_present_inc
  <2>4. Cardinality(Pairs(online \ {c})) \in Nat
    BY PairsFinite DEF Inv, Fields
  <2> QED BY <2>1, <2>2, <2>3, <2>4
<1>5. Fields'
  BY <1>1, <1>2, <1>3, <1>4 DEF Inv, Fields, OpAt, taskVars
<1>6. Operation' /\ Masks'
  BY <1>1, <1>2, <1>3 DEF Inv, Operation, Masks, OpAt, Pushes
<1>7. PerCpuThreads' /\ Runners' /\ Vacating'
  BY <1>1, <1>2, <1>3 DEF Inv, PerCpuThreads, Runners, Vacating, OpAt, Pushes, taskVars
<1>8. Counts'
  BY <1>1, <1>2, <1>3, <1>4 DEF Inv, Counts, Pairs, Uncounted, Frozen, OpAt
<1> QED BY <1>5, <1>6, <1>7, <1>8 DEF Inv

LEMMA SchedCpuActivateOnlineKeeps ==
  ASSUME Assumptions, Inv, NEW c \in CPUs, sched_cpu_activate_online(c)
  PROVE  Inv'
<1>1. /\ At(c, "rebuild") /\ cpuset_cpu_active /\ frozen' = frozen \ {c}
      /\ rq_online' = rq_online \cup {c} /\ hp' = NoOp /\ curr' = [curr EXCEPT ![c] = Idle]
      /\ UNCHANGED <<online, active, dying, push, spliced, smt_present, suspend, readers, push_work,
                     state, cpu, mask, pinned, warned>>
  BY DEF sched_cpu_activate_online, set_rq_online
<1>2. /\ hp.cpu = c /\ hp.at = "rebuild" /\ hp.thread = "queued" /\ c # None /\ c \in online
      /\ \A e \in CPUs : push_work[e] = None
  BY <1>1, HotplugThreadRuns
<1>3. OpAt(hp', None, "none", "none", FALSE) /\ None \notin CPUs /\ Idle \notin Tasks
  BY <1>1, NoOpAt DEF Assumptions, CpuAssumption, TaskAssumption
<1>4. num_cpus_frozen' = Cardinality(frozen') /\ (domains' = "single" => frozen' # {})
  <2>1. num_cpus_frozen = Cardinality(frozen) /\ Cardinality(frozen) \in Nat /\ IsFiniteSet(frozen)
    BY FrozenFinite DEF Inv, Counts
  <2>2. CASE hp.tasks_frozen
    <3>1. c \in frozen
      BY <1>2, <2>2 DEF Inv, Counts, Frozen
    <3>2. Cardinality(frozen \ {c}) = Cardinality(frozen) - 1 /\ IsFiniteSet(frozen \ {c})
      BY <2>1, <3>1, FS_RemoveElement
    <3>3. Cardinality(frozen \ {c}) # 0 => frozen \ {c} # {}
      BY FS_EmptySet
    <3> QED BY <1>1, <2>1, <2>2, <3>2, <3>3 DEF cpuset_cpu_active
  <2>3. CASE ~hp.tasks_frozen
    <3>1. frozen = {}
      BY <1>2, <2>3 DEF Inv, Counts
    <3> QED BY <1>1, <2>1, <2>3, <3>1 DEF cpuset_cpu_active
  <2> QED BY <2>2, <2>3
<1>5. Fields'
  <2>1. num_cpus_frozen' \in Int /\ domains' \in {"cpusets", "single"}
    BY <1>1 DEF cpuset_cpu_active, Inv, Fields
  <2> QED BY <1>1, <1>3, <2>1 DEF Inv, Fields, OpAt
<1>6. Operation' /\ Masks'
  BY <1>1, <1>2, <1>3 DEF Inv, Operation, Masks, OpAt, Pushes
<1>7. PerCpuThreads' /\ Vacating'
  BY <1>1, <1>2, <1>3 DEF Inv, Fields, PerCpuThreads, Vacating, OpAt, Pushes
<1>8. Runners'
  BY <1>1, <1>2, <1>3 DEF Inv, Fields, Runners, OpAt
<1>9. Counts'
  BY <1>1, <1>2, <1>3, <1>4 DEF Inv, Counts, Pairs, Uncounted, Frozen, OpAt
<1> QED BY <1>5, <1>6, <1>7, <1>8, <1>9 DEF Inv

LEMMA SuspendStepKeeps ==
  ASSUME Assumptions, Inv, SuspendStep
  PROVE  Inv'
<1>1. /\ hp = NoOp
      /\ suspend' \in {"no", "freeze", "thaw"} /\ (suspend' = "no" => frozen = {})
      /\ UNCHANGED <<maskVars, push, spliced, smt_present, num_cpus_frozen, domains, frozen, hp,
                     readers, taskVars, warned>>
  BY DEF SuspendStep
<1>2. hp.cpu = None /\ hp.at = "none" /\ None \notin CPUs
  BY <1>1, NoOpNoWork
<1>3. Fields'
  BY <1>1 DEF Inv, Fields, maskVars, taskVars
<1>4. Operation' /\ Masks'
  BY <1>1 DEF Inv, Operation, Masks, maskVars
<1>5. PerCpuThreads' /\ Runners' /\ Vacating'
  BY <1>1 DEF Inv, PerCpuThreads, Runners, Vacating, maskVars, taskVars
<1>6. Counts'
  BY <1>1, <1>2 DEF Inv, Counts, Pairs, maskVars
<1> QED BY <1>3, <1>4, <1>5, <1>6 DEF Inv

-----------------------------------------------------------------------------
(* The theorems *)

LEMMA NextInv ==
  ASSUME Assumptions, Inv, Next
  PROVE  Inv'
<1>1. CASE \E t \in Tasks : \/ select_task_rq(t) \/ ttwu_queue(t) \/ migrate_disable(t)
                            \/ migrate_enable(t) \/ can_migrate_task(t)
  BY <1>1, SelectTaskRqKeeps, TtwuQueueKeeps, MigrateDisableKeeps, CanMigrateTaskKeeps
<1>2. CASE \E c \in CPUs : \/ sched_ttwu_pending(c) \/ __balance_push_cpu_stop(c)
                           \/ \E next \in Tasks \cup {Hp, Stop, Idle} : __schedule(c, next)
  BY <1>2, SchedTtwuPendingKeeps, BalancePushCpuStopKeeps, ScheduleKeeps
<1>3. CASE balance_callbacks \/ \E c \in CPUs : splice_balance_callbacks(c)
  BY <1>3, CallbacksKeep
<1>4. CASE \E c \in CPUs : HotplugStep(c)
  <2>1. PICK c \in CPUs : HotplugStep(c)
    BY <1>4
  <2>2. CASE cpu_down(c) \/ sched_cpu_deactivate(c) \/ balance_push_set_on(c)
    BY <2>2, CpuDownKeeps, SchedCpuDeactivateKeeps, BalancePushSetOnKeeps
  <2>3. CASE \/ sched_cpu_deactivate_offline(c) \/ cpuset_cpu_inactive_fails(c)
             \/ cpuset_cpu_inactive(c)
    BY <2>3, SchedCpuDeactivateOfflineKeeps, CpusetCpuInactiveFailsKeeps, CpusetCpuInactiveKeeps
  <2>4. CASE \/ smpboot_park_threads(c) \/ cpuhp_reverse(c) \/ sched_cpu_wait_empty(c)
             \/ sched_cpu_dying(c)
    BY <2>4, SmpbootParkThreadsKeeps, CpuhpReverseKeeps, SchedCpuWaitEmptyKeeps,
       SchedCpuDyingKeeps
  <2>5. CASE \/ sched_cpu_starting(c) \/ sched_cpu_activate(c) \/ set_cpu_active(c)
             \/ sched_cpu_activate_online(c)
    BY <2>5, SchedCpuStartingKeeps, SchedCpuActivateKeeps, SetCpuActiveKeeps,
       SchedCpuActivateOnlineKeeps
  <2> QED BY <2>1, <2>2, <2>3, <2>4, <2>5 DEF HotplugStep
<1>5. CASE synchronize_rcu \/ SuspendStep
  BY <1>5, SynchronizeRcuKeeps, SuspendStepKeeps
<1> QED BY <1>1, <1>2, <1>3, <1>4, <1>5 DEF Next

LEMMA StutterInv ==
  ASSUME Inv, UNCHANGED vars
  PROVE  Inv'
<1>1. UNCHANGED <<maskVars, push, spliced, countVars, hp, readers, taskVars, warned>>
  BY DEF vars
<1>2. Fields'
  BY <1>1 DEF Inv, Fields, maskVars, countVars, taskVars
<1>3. Operation' /\ Masks' /\ Counts'
  BY <1>1, UnoperatedKeeps DEF Unoperated
<1>4. PerCpuThreads' /\ Runners' /\ Vacating'
  BY <1>1 DEF Inv, PerCpuThreads, Runners, Vacating, maskVars, taskVars
<1> QED BY <1>2, <1>3, <1>4 DEF Inv

\* What the functions of a hotplug operation rely on at each stage: which masks
\* hold the CPU and whether it pushes (sched_cpu_deactivate() to sched_cpu_activate()), which
\* wake-ups synchronize_rcu() still waits for, where the parked threads, the running tasks and the
\* stopper's work are, and what the counters count.
THEOREM HotplugInvariant == ASSUME Assumptions PROVE Spec => []Inv
<1>1. Init => Inv
  BY InitInv
<1>2. Inv /\ [Next]_vars => Inv'
  BY NextInv, StutterInv
<1> QED BY <1>1, <1>2, PTL DEF Spec

\* The masks, the state of the operation, of the queues and of the tasks keep their types, and the
\* counters stay within the number of CPUs.
THEOREM HotplugTypeCorrect == ASSUME Assumptions PROVE Spec => []TypeOK
<1>1. Inv => TypeOK
  <2> SUFFICES ASSUME Inv PROVE TypeOK
    OBVIOUS
  <2>1. num_cpus_frozen \in 0..Cardinality(CPUs)
    BY FrozenFinite DEF Inv, Counts
  <2>2. smt_present \in 0..Cardinality(CPUs)
    <3>1. PICK S \in SUBSET CPUs : 2 * smt_present = Cardinality(Pairs(S))
      BY DEF Inv, Fields, Counts
    <3> QED BY <3>1, PairsFinite DEF Inv, Fields
  <2> QED BY <2>1, <2>2 DEF Inv, Fields, OpType, TypeOK
<1> QED BY <1>1, HotplugInvariant, PTL

\* A CPU that sched_cpu_dying() takes offline has no task queued, listed, on its way or pinned,
\* so its warnings and that of balance_push_set() never fire, and no task is moved from
\* under the CPU that runs it.
THEOREM DyingCpuIsVacated == ASSUME Assumptions PROVE Spec => []Vacated
<1>1. Inv => Vacated
  BY DEF Inv, Fields, Masks, Runners, Vacating, Vacated, rq_has_pinned_tasks
<1> QED BY <1>1, HotplugInvariant, PTL

\* splice_balance_callbacks() and balance_callbacks() never take balance_push_callback from a CPU
\* between balance_push_set(on) and sched_cpu_activate().
THEOREM PushIsNotSpliced == ASSUME Assumptions PROVE Spec => []PushPersists
<1>1. Inv => PushPersists
  BY DEF Inv, Operation, Masks, PushPersists, Pushes, Assumptions, CpuAssumption
<1> QED BY <1>1, HotplugInvariant, PTL

\* sched_cpu_deactivate(), its error path, a reversal and sched_cpu_activate() leave
\* sched_smt_present at the number of cores with two active hyperthreads, num_cpus_frozen at the
\* number of CPUs that suspend took down, and after resume the domains of the cpusets.
THEOREM CountersSurvive == ASSUME Assumptions PROVE Spec => []CountersBalanced
<1>1. Inv => CountersBalanced
  <2> SUFFICES ASSUME Inv, hp = NoOp PROVE CountersBalanced
    BY DEF CountersBalanced
  <2>1. hp.at = "none" /\ hp.cpu = None /\ None \notin CPUs
    BY NoOpNoWork DEF Inv, Operation, Assumptions, CpuAssumption, NoOp
  <2>2. active = online
    <3>1. active \subseteq online /\ online \subseteq CPUs
      BY DEF Inv, Fields
    <3>2. \A c \in CPUs : c \in active <=> c \in online
      BY <2>1 DEF Inv, Masks
    <3> QED BY <3>1, <3>2
  <2>3. 2 * smt_present = Cardinality(Pairs(online))
    BY <2>1 DEF Inv, Counts, Uncounted
  <2>4. Pairs(online) = {c \in Cores2 : {c, Sibling[c]} \subseteq active}
    BY <2>2 DEF Pairs
  <2>5. num_cpus_frozen = Cardinality(frozen) /\ (suspend = "no" => domains # "single")
    BY DEF Inv, Counts
  <2> QED BY <2>3, <2>4, <2>5 DEF Inv, Fields, CountersBalanced
<1> QED BY <1>1, HotplugInvariant, PTL
=============================================================================
