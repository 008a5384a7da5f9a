--------------------------- MODULE AffinityProofs ---------------------------
(***************************************************************************)
(* The safety properties of Affinity for any number of CPUs and callers    *)
(* and any nesting of migrate-disabled regions: a pending is never used    *)
(* after its owner returned, and a pinned task is never moved.             *)
(*                                                                         *)
(* A pending is safe to use while its owner waits; the owner waits while   *)
(* the pending is not done or the others that share it are counted; and    *)
(* it is not done while it is installed or a stopper has its work.  The    *)
(* parts of Inv are these three links, and what keeps the CPU of the task  *)
(* in place.                                                               *)
(***************************************************************************)
EXTENDS Affinity, FiniteSetTheorems, TLAPS

Waits(o) == [at |-> "wait", on |-> o]
Drains(o) == [at |-> "drain", on |-> o]

\* The callers that still hold a reference to the pending of o.
Waiters(o) == {k \in Callers : pc[k] = Waits(o)}

\* Where a caller can be; the pending on its stack is in use exactly while the
\* caller that installed it has not returned, and whoever waits, waits for one
\* that is in use.
OwnersStay ==
    \A k \in Callers :
        /\ pend[k].live <=> pc[k] \in {Waits(k), Drains(k)}
        /\ pc[k] = Idle \/ pc[k] = Drains(k)
           \/ \E o \in Callers : pc[k] = Waits(o) /\ pend[o].live

\* The references are those of the callers that wait.
RefsCounted == \A o \in Callers : pend[o].live => pend[o].refs = Cardinality(Waiters(o))

\* The owner of the installed pending cannot go on.
InstalledWaits ==
    migration_pending # None => pc[migration_pending] = Waits(migration_pending) /\ ~pend[migration_pending].done

\* A pending has at most one work queued, stop_pending says whether, and only
\* the installed one has one.
OneWork ==
    \A o \in Callers :
        /\ pend[o].stop_pending <=> \E c \in CPUs : o \in stopq[c]
        /\ \A c, d \in CPUs : o \in stopq[c] /\ o \in stopq[d] => c = d
        /\ pend[o].stop_pending => migration_pending = o

\* Without migrate-disabled regions a task that is not asleep is where it may
\* be, or a stopper is about to bring it to a CPU of its last mask.
Heading ==
    scenario.nesting = 0 /\ run # "sleeping" /\ cpu \notin cpus_mask =>
        /\ migration_pending # None
        /\ pend[migration_pending].dest_cpu \in cpus_mask

\* p->cpus_ptr is narrowed to the CPU the task is on when it is switched out
\* of a migrate-disabled region, until the region ends; its end is not
\* preempted.
Narrowed ==
    /\ cpus_ptr # OwnMask => is_migration_disabled /\ cpus_ptr = cpu
    /\ is_migration_disabled /\ run # "running" => cpus_ptr = cpu
    /\ enabling => run = "running" /\ migration_disabled = 1 /\ cpus_ptr = OwnMask

\* The inductive invariant.
Inv ==
    /\ TypeOK /\ OwnersStay /\ RefsCounted /\ InstalledWaits /\ OneWork
    /\ Heading /\ Narrowed /\ PinnedCounted

-----------------------------------------------------------------------------
LEMMA InitInv == Init => Inv
<1> SUFFICES ASSUME Init PROVE Inv
  OBVIOUS
<1>1. NoPending \in Pending
  <2>1. Cardinality(Callers) \in Nat
    BY CallerAssumption, FS_CardinalityType
  <2> QED BY <2>1 DEF NoPending, Pending
<1>2. TypeOK
  <2>1. scenario.nesting \in Nat /\ 0 \in 0 .. scenario.nesting
    BY ScenarioAssumption DEF Init
  <2>2. cpus_mask \in (SUBSET CPUs) \ {{}}
    BY CpuAssumption DEF Init
  <2> QED BY <1>1, <2>1, <2>2 DEF Init, TypeOK, Idle, NoSwap
<1>3. OwnersStay /\ RefsCounted /\ InstalledWaits /\ OneWork
  BY DEF Init, OwnersStay, RefsCounted, InstalledWaits, OneWork, NoPending, Idle, Waits, Drains
<1>4. Heading /\ Narrowed /\ PinnedCounted
  BY CpuAssumption DEF Init, Heading, Narrowed, PinnedCounted, is_migration_disabled
<1> QED BY <1>2, <1>3, <1>4 DEF Inv

-----------------------------------------------------------------------------
(* Steps that leave the pendings alone.                                    *)

LEMMA PendingsKept ==
  ASSUME Inv, UNCHANGED pendVars
  PROVE  OwnersStay' /\ RefsCounted' /\ InstalledWaits' /\ OneWork'
BY DEF Inv, pendVars, OwnersStay, RefsCounted, InstalledWaits, OneWork, Waiters

\* A task that is not running and is moved within its mask stays where it is
\* if it is pinned, and otherwise is where it may be.
LEMMA MovedWithinMask ==
  ASSUME Inv, run # "running", NEW d \in AllowedMask, cpu' = d,
         UNCHANGED <<scenario, cpus_mask, cpus_ptr, migration_disabled, enabling, nr_pinned>>
  PROVE  /\ d \in CPUs /\ Narrowed' /\ PinnedCounted'
         /\ is_migration_disabled => d = cpu
         /\ scenario.nesting = 0 => d \in cpus_mask
<1>1. /\ cpu \in CPUs /\ cpus_mask \subseteq CPUs /\ migration_disabled \in 0 .. scenario.nesting
      /\ cpus_ptr \in CPUs \cup {OwnMask}
  BY DEF Inv, TypeOK
<1>2. is_migration_disabled => cpus_ptr = cpu
  BY DEF Inv, Narrowed
<1>3. d \in CPUs
  BY <1>1 DEF AllowedMask
<1>4. is_migration_disabled => d = cpu
  BY <1>1, <1>2, CpuAssumption DEF AllowedMask
<1>5. scenario.nesting = 0 => d \in cpus_mask
  <2> SUFFICES ASSUME scenario.nesting = 0 PROVE d \in cpus_mask
    OBVIOUS
  <2>1. ~is_migration_disabled
    BY <1>1 DEF is_migration_disabled
  <2>2. cpus_ptr = OwnMask
    BY <2>1 DEF Inv, Narrowed
  <2> QED BY <2>2 DEF AllowedMask
<1>6. ~enabling
  BY DEF Inv, Narrowed
<1>7. PinnedCounted'
  BY <1>4 DEF Inv, PinnedCounted, is_migration_disabled
<1>8. Narrowed'
  BY <1>2, <1>4, <1>6 DEF Inv, Narrowed, is_migration_disabled
<1> QED BY <1>3, <1>4, <1>5, <1>7, <1>8


\* What a step from the invariant has to show.
Keeps ==
    /\ Inv'
    /\ is_migration_disabled /\ migration_disabled' # 0 => cpu' = cpu

LEMMA WakeKeeps ==
  ASSUME Inv, UNCHANGED scenario, run = "sleeping", run' = "waking",
         \E d \in AllowedMask : set_task_cpu(d),
         UNCHANGED <<cpus_mask, cpus_ptr, migration_disabled, enabling, nr_pinned, pendVars, moveVars>>
  PROVE  Keeps
<1>1. PICK d \in AllowedMask : cpu' = d
  BY DEF set_task_cpu
<1>2. /\ d \in CPUs /\ Narrowed' /\ PinnedCounted'
      /\ is_migration_disabled => d = cpu
      /\ scenario.nesting = 0 => d \in cpus_mask
  BY <1>1, MovedWithinMask
<1>3. TypeOK'
  BY <1>1, <1>2 DEF Inv, TypeOK, pendVars, moveVars
<1>4. OwnersStay' /\ RefsCounted' /\ InstalledWaits' /\ OneWork'
  BY PendingsKept
<1>5. Heading'
  BY <1>1, <1>2 DEF Heading
<1> QED BY <1>1, <1>2, <1>3, <1>4, <1>5 DEF Keeps, Inv

LEMMA ScheduleKeeps ==
  ASSUME Inv, UNCHANGED scenario, Schedule
  PROVE  Keeps
<1>1. ASSUME NEW to \in {"queued", "sleeping"}, switch_out(to) PROVE Keeps
  <2>1. /\ run = "running" /\ run' = to /\ ~enabling
        /\ cpus_ptr' = IF is_migration_disabled /\ cpus_ptr = OwnMask THEN cpu ELSE cpus_ptr
        /\ UNCHANGED <<cpu, cpus_mask, migration_disabled, enabling, nr_pinned, pendVars, moveVars>>
    BY <1>1 DEF switch_out, migrate_disable_switch
  <2>2. TypeOK'
    BY <2>1 DEF Inv, TypeOK, pendVars, moveVars
  <2>3. OwnersStay' /\ RefsCounted' /\ InstalledWaits' /\ OneWork'
    BY <2>1, PendingsKept
  <2>4. Heading'
    BY <2>1 DEF Inv, Heading, pendVars
  <2>5. Narrowed' /\ PinnedCounted'
    BY <2>1 DEF Inv, Narrowed, PinnedCounted, is_migration_disabled
  <2> QED BY <2>1, <2>2, <2>3, <2>4, <2>5 DEF Keeps, Inv
<1>2. CASE switch_in
  <2>1. /\ run = "queued" /\ run' = "running"
        /\ UNCHANGED <<cpu, cpus_mask, cpus_ptr, migration_disabled, enabling, nr_pinned, pendVars, moveVars>>
    BY <1>2 DEF switch_in
  <2>2. TypeOK'
    BY <2>1 DEF Inv, TypeOK, pendVars, moveVars
  <2>3. OwnersStay' /\ RefsCounted' /\ InstalledWaits' /\ OneWork'
    BY <2>1, PendingsKept
  <2>4. Heading' /\ Narrowed' /\ PinnedCounted'
    BY <2>1 DEF Inv, Heading, Narrowed, PinnedCounted, is_migration_disabled, pendVars
  <2> QED BY <2>1, <2>2, <2>3, <2>4 DEF Keeps, Inv
<1>3. CASE try_to_wake_up
  BY <1>3, WakeKeeps DEF try_to_wake_up
<1>4. CASE complete_wakes_self
  BY <1>4, WakeKeeps DEF complete_wakes_self
<1>5. CASE sched_ttwu_pending
  <2>1. /\ run = "waking" /\ run' = "queued"
        /\ UNCHANGED <<cpu, cpus_mask, cpus_ptr, migration_disabled, enabling, nr_pinned, pendVars, moveVars>>
    BY <1>5 DEF sched_ttwu_pending
  <2>2. TypeOK'
    BY <2>1 DEF Inv, TypeOK, pendVars, moveVars
  <2>3. OwnersStay' /\ RefsCounted' /\ InstalledWaits' /\ OneWork'
    BY <2>1, PendingsKept
  <2>4. Heading' /\ Narrowed' /\ PinnedCounted'
    BY <2>1 DEF Inv, Heading, Narrowed, PinnedCounted, is_migration_disabled, pendVars
  <2> QED BY <2>1, <2>2, <2>3, <2>4 DEF Keeps, Inv
<1>6. CASE load_balance
  <2>1. PICK d \in AllowedMask : cpu' = d
    BY <1>6 DEF load_balance, set_task_cpu
  <2>2. /\ run = "queued" /\ ~is_migration_disabled
        /\ UNCHANGED <<run, cpus_mask, cpus_ptr, migration_disabled, enabling, nr_pinned, pendVars, moveVars>>
    BY <1>6 DEF load_balance
  <2>3. /\ d \in CPUs /\ Narrowed' /\ PinnedCounted'
        /\ scenario.nesting = 0 => d \in cpus_mask
    BY <2>1, <2>2, MovedWithinMask
  <2>4. TypeOK'
    BY <2>1, <2>2, <2>3 DEF Inv, TypeOK, pendVars, moveVars
  <2>5. OwnersStay' /\ RefsCounted' /\ InstalledWaits' /\ OneWork'
    BY <2>2, PendingsKept
  <2>6. Heading'
    BY <2>1, <2>2, <2>3 DEF Heading
  <2> QED BY <2>2, <2>3, <2>4, <2>5, <2>6 DEF Keeps, Inv
<1> QED BY <1>1, <1>2, <1>3, <1>4, <1>5, <1>6 DEF Schedule

-----------------------------------------------------------------------------
(* The pendings.                                                           *)

\* A caller that is not in a call owns nothing and nobody refers to it.
LEMMA IdleOwnsNothing ==
  ASSUME Inv, NEW k \in Callers, pc[k] = Idle
  PROVE  ~pend[k].live /\ Waiters(k) = {} /\ migration_pending # k /\ ~pend[k].stop_pending
<1>1. Idle # Waits(k) /\ Idle # Drains(k)
  BY DEF Idle, Waits, Drains
<1>2. ~pend[k].live
  BY <1>1 DEF Inv, OwnersStay
<1>3. migration_pending # k
  BY <1>1, CallerAssumption DEF Inv, InstalledWaits
<1>4. ASSUME NEW j \in Callers, pc[j] = Waits(k) PROVE FALSE
  <2>1. pc[j] # Idle /\ pc[j] # Drains(j)
    BY <1>4 DEF Idle, Waits, Drains
  <2>2. PICK o \in Callers : pc[j] = Waits(o) /\ pend[o].live
    BY <2>1 DEF Inv, OwnersStay
  <2>3. o = k
    BY <1>4, <2>2 DEF Waits
  <2> QED BY <1>2, <2>2, <2>3
<1> QED BY <1>2, <1>3, <1>4 DEF Waiters, Inv, OneWork

\* Whoever uses a pending uses one whose owner waits.
LEMMA WaitersCounted ==
  ASSUME Inv, NEW o \in Callers
  PROVE  IsFiniteSet(Waiters(o)) /\ Cardinality(Waiters(o)) \in 0 .. Cardinality(Callers)
BY CallerAssumption, FS_Subset, FS_CardinalityType DEF Waiters

\* The installed pending is completed, and no longer installed.
LEMMA CompleteKeeps ==
  ASSUME Inv, migration_pending # None, ~pend[migration_pending].stop_pending,
         migration_pending' = None, pend' = Complete(migration_pending), UNCHANGED <<stopq, pc>>
  PROVE  OwnersStay' /\ RefsCounted' /\ InstalledWaits' /\ OneWork' /\ pend' \in [Callers -> Pending]
<1> DEFINE o == migration_pending
<1>1. o \in Callers /\ pend \in [Callers -> Pending]
  BY DEF Inv, TypeOK
<1>2. /\ pend' \in [Callers -> Pending]
      /\ \A k \in Callers : /\ pend'[k].live = pend[k].live /\ pend'[k].refs = pend[k].refs
                            /\ pend'[k].stop_pending = pend[k].stop_pending
  BY <1>1 DEF Complete, Pending
<1>3. OwnersStay' /\ RefsCounted'
  BY <1>2 DEF Inv, OwnersStay, RefsCounted, Waiters
<1>4. OneWork'
  BY <1>2 DEF Inv, OneWork
<1> QED BY <1>2, <1>3, <1>4 DEF InstalledWaits

LEMMA StaysKeeps ==
  ASSUME Inv, NEW k, affine_move_task_stays(k)
  PROVE  /\ OwnersStay' /\ RefsCounted' /\ InstalledWaits' /\ OneWork'
         /\ migration_pending' \in Callers \cup {None} /\ pend' \in [Callers -> Pending]
         /\ UNCHANGED <<stopq, pc>>
         /\ migration_pending' # None => pend'[migration_pending'] = pend[migration_pending]
                                         /\ migration_pending' = migration_pending
<1>1. UNCHANGED <<stopq, pc>>
  BY DEF affine_move_task_stays
<1>2. CASE migration_pending # None /\ ~pend[migration_pending].stop_pending
  <2>1. migration_pending' = None /\ pend' = Complete(migration_pending)
    BY <1>2 DEF affine_move_task_stays
  <2> QED BY <1>1, <1>2, <2>1, CompleteKeeps
<1>3. CASE ~(migration_pending # None /\ ~pend[migration_pending].stop_pending)
  <2>1. UNCHANGED <<migration_pending, pend>>
    BY <1>3 DEF affine_move_task_stays
  <2> QED BY <1>1, <2>1, PendingsKept DEF Inv, TypeOK, pendVars
<1> QED BY <1>2, <1>3

\* The pending that caller k waits for: the installed one, or its own.
Shared(k) == IF migration_pending = None THEN k ELSE migration_pending

LEMMA InstallKeeps ==
  ASSUME Inv, NEW k \in Callers, pc[k] = Idle, NEW d \in CPUs,
         pc' = [pc EXCEPT ![k] = Waits(Shared(k))],
         pend' \in [Callers -> Pending],
         \A j \in Callers : pend'[j].live = Install(k, d)[j].live /\ pend'[j].refs = Install(k, d)[j].refs
  PROVE  OwnersStay' /\ RefsCounted'
<1> DEFINE o == Shared(k)
           p1 == Install(k, d)
<1> USE DEF Shared
<1>1. o \in Callers /\ pend \in [Callers -> Pending]
      /\ pc \in [Callers -> [at : {"idle", "wait", "drain"}, on : Callers \cup {None}]]
  BY DEF Inv, TypeOK
<1>2. ~pend[k].live /\ Waiters(k) = {} /\ migration_pending # k
  BY IdleOwnsNothing
<1>3. pc'[k] = Waits(o) /\ \A j \in Callers \ {k} : pc'[j] = pc[j]
  BY <1>1
<1>4. \A j \in Callers : Waiters(j)' = IF j = o THEN Waiters(j) \cup {k} ELSE Waiters(j)
  <2>1. \A j \in Callers : Waits(j) = Waits(o) => j = o
    BY DEF Waits
  <2>2. \A j \in Callers : k \notin Waiters(j)
    BY DEF Waiters, Idle, Waits
  <2> QED BY <1>3, <2>1, <2>2 DEF Waiters
<1>5. k \notin Waiters(o)
  BY DEF Waiters, Idle, Waits
<1>6. /\ IsFiniteSet(Waiters(o)) /\ Cardinality(Waiters(o)) \in Nat
      /\ Cardinality(Waiters(o) \cup {k}) = Cardinality(Waiters(o)) + 1
  <2>1. IsFiniteSet(Waiters(o)) /\ Cardinality(Waiters(o)) \in 0 .. Cardinality(Callers)
    BY <1>1, WaitersCounted
  <2>2. Cardinality(Waiters(o)) \in Nat
    BY <2>1, FS_CardinalityType
  <2> QED BY <1>5, <2>1, <2>2, FS_AddElement
<1>9. ASSUME NEW j \in Callers
      PROVE  Cardinality(Waiters(j))' =
               IF j = o THEN Cardinality(Waiters(j)) + 1 ELSE Cardinality(Waiters(j))
  BY <1>4, <1>6, <1>9
<1>7. CASE migration_pending = None
  <2>1. /\ o = k /\ p1[k].live /\ p1[k].refs = 1
        /\ \A j \in Callers \ {k} : p1[j] = pend[j]
    BY <1>1, <1>7 DEF Install
  <2>2. \A j \in Callers : pend'[j].live <=> pend[j].live \/ j = k
    BY <1>1, <2>1 DEF Pending
  <2>3. OwnersStay'
    <3>1. \A j \in Callers : Idle # Waits(j) /\ Idle # Drains(j) /\ Waits(j) # Drains(j)
      BY DEF Idle, Waits, Drains
    <3>2. \A j \in Callers : Waits(j)' = Waits(j) /\ Drains(j)' = Drains(j) /\ Idle' = Idle
      BY DEF Idle, Waits, Drains
    <3>3. ASSUME NEW j \in Callers
          PROVE  /\ pend'[j].live <=> pc'[j] \in {Waits(j), Drains(j)}
                 /\ pc'[j] = Idle \/ pc'[j] = Drains(j)
                    \/ \E i \in Callers : pc'[j] = Waits(i) /\ pend'[i].live
      <4>1. CASE j = k
        BY <1>3, <2>1, <2>2, <4>1
      <4>2. CASE j # k
        BY <1>3, <2>2, <4>2 DEF Inv, OwnersStay
      <4> QED BY <4>1, <4>2
    <3> QED BY <3>2, <3>3 DEF OwnersStay
  <2>4. Cardinality(Waiters(k)) = 0
    BY <1>2, FS_EmptySet
  <2>5. RefsCounted'
    <3>1. ASSUME NEW j \in Callers, pend'[j].live PROVE pend'[j].refs = Cardinality(Waiters(j))'
      BY <1>9, <2>1, <2>2, <2>4, <3>1 DEF Inv, RefsCounted
    <3> QED BY <3>1 DEF RefsCounted
  <2> QED BY <2>3, <2>5
<1>8. CASE migration_pending # None
  <2>1. pend[o].live
    BY <1>1, <1>8 DEF Inv, InstalledWaits, OwnersStay
  <2>2. /\ o # k /\ o = migration_pending
        /\ p1[o].live /\ p1[o].refs = pend[o].refs + 1
        /\ \A j \in Callers \ {o} : p1[j] = pend[j]
    BY <1>1, <1>2, <1>8, <2>1 DEF Install, Pending
  <2>3. \A j \in Callers : pend'[j].live <=> pend[j].live
    BY <2>1, <2>2
  <2>4. OwnersStay'
    <3>2. \A j \in Callers : Waits(j)' = Waits(j) /\ Drains(j)' = Drains(j) /\ Idle' = Idle
      BY DEF Idle, Waits, Drains
    <3>3. ASSUME NEW j \in Callers
          PROVE  /\ pend'[j].live <=> pc'[j] \in {Waits(j), Drains(j)}
                 /\ pc'[j] = Idle \/ pc'[j] = Drains(j)
                    \/ \E i \in Callers : pc'[j] = Waits(i) /\ pend'[i].live
      <4>1. CASE j = k
        <5>1. pc'[k] # Waits(k) /\ pc'[k] # Drains(k)
          BY <1>3, <2>2 DEF Waits, Drains
        <5> QED BY <1>1, <1>2, <1>3, <2>1, <2>3, <4>1, <5>1
      <4>2. CASE j # k
        BY <1>3, <2>3, <4>2 DEF Inv, OwnersStay
      <4> QED BY <4>1, <4>2
    <3> QED BY <3>2, <3>3 DEF OwnersStay
  <2>5. RefsCounted'
    <3>1. ASSUME NEW j \in Callers, pend'[j].live PROVE pend'[j].refs = Cardinality(Waiters(j))'
      BY <1>9, <2>1, <2>2, <2>3, <3>1 DEF Inv, RefsCounted
    <3> QED BY <3>1 DEF RefsCounted
  <2> QED BY <2>4, <2>5
<1> QED BY <1>7, <1>8

\* The steps of affine_move_task() that leave a pending to a stopper: its work
\* is queued, or is already.
LEMMA WorkQueued ==
  ASSUME Inv, NEW o \in Callers, NEW p1, p1[o].stop_pending = pend[o].stop_pending,
         \A j \in Callers : j # o => p1[j].stop_pending = pend[j].stop_pending,
         p1 \in [Callers -> Pending], pend[o].stop_pending \/ \A c \in CPUs : o \notin stopq[c],
         \A j \in Callers : j # o => ~pend[j].stop_pending,
         migration_pending' = o,
         pend' = [p1 EXCEPT ![o].stop_pending = TRUE],
         stopq' = IF p1[o].stop_pending THEN stopq ELSE [stopq EXCEPT ![cpu] = @ \cup {o}]
  PROVE  OneWork' /\ pend' \in [Callers -> Pending] /\ stopq' \in [CPUs -> SUBSET (Callers \cup {Exec})]
<1>1. cpu \in CPUs /\ stopq \in [CPUs -> SUBSET (Callers \cup {Exec})] /\ pend \in [Callers -> Pending]
  BY DEF Inv, TypeOK
<1>2. /\ pend' \in [Callers -> Pending] /\ pend'[o].stop_pending
      /\ \A j \in Callers : j # o => ~pend'[j].stop_pending
  BY DEF Pending
<1>3. \A j \in Callers : j # o => \A c \in CPUs : j \notin stopq[c]
  BY DEF Inv, OneWork
<1>4. CASE pend[o].stop_pending
  <2>1. stopq' = stopq
    BY <1>4
  <2> QED BY <1>1, <1>2, <1>3, <1>4, <2>1 DEF Inv, OneWork
<1>5. CASE ~pend[o].stop_pending
  <2>1. /\ stopq' = [stopq EXCEPT ![cpu] = @ \cup {o}]
        /\ \A c \in CPUs : o \notin stopq[c]
    BY <1>5
  <2>2. /\ stopq' \in [CPUs -> SUBSET (Callers \cup {Exec})]
        /\ \A j \in Callers, c \in CPUs : j \in stopq'[c] <=> j = o /\ c = cpu
    BY <1>1, <1>3, <2>1
  <2> QED BY <1>1, <1>2, <2>2 DEF OneWork
<1> QED BY <1>4, <1>5

\* Caller k has to move the task to d.
LEMMA MoveKeeps ==
  ASSUME Inv, NEW k \in Callers, pc[k] = Idle, NEW m \in SUBSET CPUs, NEW d \in m,
         affine_move_task(k, d), cpus_mask' = m, cpu \notin m,
         UNCHANGED <<scenario, run, cpus_ptr, migration_disabled, enabling, nr_pinned, moveVars>>
  PROVE  Keeps
<1> DEFINE o == Shared(k)
           p1 == Install(k, d)
           complete == ~is_migration_disabled /\ ~p1[o].stop_pending
<1> USE DEF Shared
<1>1. /\ cpu \in CPUs /\ pend \in [Callers -> Pending] /\ migration_pending \in Callers \cup {None}
      /\ pc \in [Callers -> [at : {"idle", "wait", "drain"}, on : Callers \cup {None}]]
      /\ stopq \in [CPUs -> SUBSET (Callers \cup {Exec})]
  BY DEF Inv, TypeOK
<1>2. o \in Callers /\ d \in CPUs /\ CallerAssumption
  BY <1>1, CallerAssumption
<1>3. ~pend[k].live /\ Waiters(k) = {} /\ migration_pending # k /\ ~pend[k].stop_pending
  BY IdleOwnsNothing
<1>4. /\ p1 \in [Callers -> Pending]
      /\ p1[o].stop_pending = pend[o].stop_pending /\ ~p1[o].done /\ p1[o].dest_cpu = d
      /\ \A j \in Callers : j # o => p1[j] = pend[j]
  <2>1. Cardinality(Callers) \in Nat /\ Cardinality(Callers) >= 1
    BY <1>2, FS_CardinalityType, FS_EmptySet
  <2>2. CASE migration_pending = None
    <3> DEFINE new == [live |-> TRUE, refs |-> 1, stop_pending |-> FALSE, done |-> FALSE, dest_cpu |-> d]
    <3>1. o = k /\ p1 = [pend EXCEPT ![k] = new]
      BY <2>2 DEF Install
    <3>2. new \in Pending
      BY <1>2, <2>1 DEF Pending
    <3>3. pend[k].stop_pending = FALSE
      BY <1>1, <1>3 DEF Pending
    <3> HIDE DEF p1, o
    <3> QED BY <1>1, <3>1, <3>2, <3>3
  <2>3. CASE migration_pending # None
    <3>1. pend[o].live /\ ~pend[o].done
      BY <1>1, <2>3 DEF Inv, InstalledWaits, OwnersStay
    <3>2. k \notin Waiters(o) /\ pend[o].refs = Cardinality(Waiters(o))
      BY <1>2, <3>1 DEF Waiters, Idle, Waits, Inv, RefsCounted
    <3>3. IsFiniteSet(Waiters(o)) /\ Cardinality(Waiters(o)) \in Nat
      BY <1>2, WaitersCounted, FS_CardinalityType
    <3>4. Cardinality(Waiters(o) \cup {k}) = Cardinality(Waiters(o)) + 1
      BY <3>2, <3>3, FS_AddElement
    <3>5. Waiters(o) \cup {k} \in SUBSET Callers
      BY DEF Waiters
    <3>6. Cardinality(Waiters(o) \cup {k}) <= Cardinality(Callers)
      BY <1>2, <3>5, FS_Subset
    <3>7. pend[o].refs + 1 \in 0 .. Cardinality(Callers)
      BY <2>1, <3>2, <3>3, <3>4, <3>6
    <3> QED BY <1>1, <1>2, <2>3, <3>1, <3>7 DEF Install, Pending
  <2> QED BY <2>2, <2>3
<1>5. \A j \in Callers : j # o => ~pend[j].stop_pending /\ \A c \in CPUs : j \notin stopq[c]
  <2>1. ASSUME NEW j \in Callers, j # o PROVE ~pend[j].stop_pending
    BY <1>2, <1>3, <2>1 DEF Inv, OneWork
  <2> QED BY <2>1 DEF Inv, OneWork
<1>6. pend[o].stop_pending \/ \A c \in CPUs : o \notin stopq[c]
  BY <1>2 DEF Inv, OneWork
<1>7. pc' = [pc EXCEPT ![k] = Waits(o)]
  BY DEF affine_move_task, Waits
<1>8. /\ pc' \in [Callers -> [at : {"idle", "wait", "drain"}, on : Callers \cup {None}]]
      /\ pc'[o] = Waits(o)
  <2>1. Waits(o) \in [at : {"idle", "wait", "drain"}, on : Callers \cup {None}]
    BY <1>2 DEF Waits
  <2>2. migration_pending # None => pc[o] = Waits(o)
    BY DEF Inv, InstalledWaits
  <2> QED BY <1>1, <1>2, <1>7, <2>1, <2>2
<1>16. \A j \in Callers : j # o => p1[j].stop_pending = pend[j].stop_pending
  BY <1>4
<1>17. \A j \in Callers : j # o => ~pend[j].stop_pending
  BY <1>5
<1>18. p1[o].stop_pending = pend[o].stop_pending /\ p1 \in [Callers -> Pending]
  BY <1>4
<1>9. /\ OwnersStay' /\ RefsCounted' /\ InstalledWaits' /\ OneWork' /\ cpu' \in CPUs
      /\ migration_pending' \in Callers \cup {None} /\ pend' \in [Callers -> Pending]
      /\ stopq' \in [CPUs -> SUBSET (Callers \cup {Exec})]
      /\ \/ /\ run # "sleeping" => cpu' \in m
            /\ is_migration_disabled \/ run = "running" => cpu' = cpu
         \/ /\ migration_pending' = o /\ pend'[o].dest_cpu = d /\ cpu' = cpu
  <2>1. CASE run \in {"running", "waking"}
    <3>1. /\ migration_pending' = o /\ pend' = [p1 EXCEPT ![o].stop_pending = TRUE] /\ cpu' = cpu
          /\ stopq' = IF p1[o].stop_pending THEN stopq ELSE [stopq EXCEPT ![cpu] = @ \cup {o}]
      BY <2>1 DEF affine_move_task
    <3> HIDE DEF p1, o
    <3>2. OneWork' /\ pend' \in [Callers -> Pending] /\ stopq' \in [CPUs -> SUBSET (Callers \cup {Exec})]
      BY <1>2, <1>6, <1>16, <1>17, <1>18, <3>1, WorkQueued
    <3>3. /\ \A j \in Callers : pend'[j].live = p1[j].live /\ pend'[j].refs = p1[j].refs
          /\ ~pend'[o].done /\ pend'[o].dest_cpu = d
      BY <1>2, <1>4, <3>1 DEF Pending
    <3>4. OwnersStay' /\ RefsCounted'
      <4>1. \A j \in Callers : pend'[j].live = Install(k, d)[j].live /\ pend'[j].refs = Install(k, d)[j].refs
        BY <3>3 DEF p1
      <4>2. pend' \in [Callers -> Pending] /\ d \in CPUs
        BY <1>2, <3>2
      <4>3. pc' = [pc EXCEPT ![k] = Waits(Shared(k))]
        BY <1>7 DEF o
      <4> HIDE DEF Shared
      <4> QED BY <4>1, <4>2, <4>3, InstallKeeps
    <3>5. InstalledWaits'
      BY <1>8, <3>1, <3>3 DEF InstalledWaits, Waits
    <3> QED BY <1>1, <1>2, <3>1, <3>2, <3>3, <3>4, <3>5
  <2>2. CASE run \notin {"running", "waking"}
    <3>1. /\ cpu' = IF ~is_migration_disabled /\ run = "queued" THEN d ELSE cpu
          /\ migration_pending' = IF complete THEN None ELSE o
          /\ pend' = IF complete THEN [p1 EXCEPT ![o].done = TRUE] ELSE p1
          /\ stopq' = stopq
      BY <2>2 DEF affine_move_task
    <3> HIDE DEF p1, o
    <3>2. /\ pend' \in [Callers -> Pending]
          /\ \A j \in Callers : /\ pend'[j].live = p1[j].live /\ pend'[j].refs = p1[j].refs
                                /\ pend'[j].stop_pending = p1[j].stop_pending
          /\ ~complete => ~pend'[o].done
          /\ pend'[o].dest_cpu = d
      BY <1>2, <1>4, <3>1 DEF Pending
    <3>3. OwnersStay' /\ RefsCounted'
      <4>1. \A j \in Callers : pend'[j].live = Install(k, d)[j].live /\ pend'[j].refs = Install(k, d)[j].refs
        BY <3>2 DEF p1
      <4>2. pend' \in [Callers -> Pending] /\ d \in CPUs
        BY <1>2, <3>2
      <4>3. pc' = [pc EXCEPT ![k] = Waits(Shared(k))]
        BY <1>7 DEF o
      <4> HIDE DEF Shared
      <4> QED BY <4>1, <4>2, <4>3, InstallKeeps
    <3>4. InstalledWaits'
      BY <1>2, <1>8, <3>1, <3>2 DEF InstalledWaits, Waits
    <3>5. OneWork'
      <4>1. \A j \in Callers : pend'[j].stop_pending = pend[j].stop_pending
        BY <1>2, <1>4, <3>2
      <4>2. \A j \in Callers : pend'[j].stop_pending => j = o /\ migration_pending' = o
        BY <1>2, <1>4, <1>5, <3>1, <4>1
      <4> QED BY <3>1, <4>1, <4>2 DEF Inv, OneWork
    <3>6. run \in {"queued", "sleeping"}
      BY <2>2 DEF Inv, TypeOK
    <3> QED BY <1>1, <1>2, <3>1, <3>2, <3>3, <3>4, <3>5, <3>6
  <2> QED BY <2>1, <2>2
<1>10. TypeOK'
  <2>1. m \in (SUBSET CPUs) \ {{}}
    OBVIOUS
  <2> QED BY <1>8, <1>9, <2>1 DEF Inv, TypeOK, moveVars
<1>11. Heading'
  BY <1>2, <1>9 DEF Heading
<1>12. Narrowed' /\ PinnedCounted'
  <2>1. is_migration_disabled \/ run = "running" => cpu' = cpu
    BY <1>9
  <2> QED BY <2>1 DEF Inv, Narrowed, PinnedCounted, is_migration_disabled
<1>13. is_migration_disabled => cpu' = cpu
  BY <1>9
<1> QED BY <1>9, <1>10, <1>11, <1>12, <1>13 DEF Keeps, Inv

LEMMA SetAffinityKeeps ==
  ASSUME Inv, UNCHANGED scenario, NEW k \in Callers, NEW m \in SUBSET CPUs, __set_cpus_allowed_ptr(k, m)
  PROVE  Keeps
<1>1. /\ pc[k] = Idle /\ m # {} /\ cpus_mask' = m
      /\ UNCHANGED <<run, cpus_ptr, migration_disabled, enabling, nr_pinned, moveVars>>
  BY DEF __set_cpus_allowed_ptr, __do_set_cpus_allowed
<1>2. CASE cpu \in m
  <2>1. affine_move_task_stays(k) /\ cpu' = cpu
    BY <1>2 DEF __set_cpus_allowed_ptr
  <2>2. /\ OwnersStay' /\ RefsCounted' /\ InstalledWaits' /\ OneWork'
        /\ migration_pending' \in Callers \cup {None} /\ pend' \in [Callers -> Pending]
        /\ UNCHANGED <<stopq, pc>>
    BY <2>1, StaysKeeps
  <2>3. TypeOK'
    BY <1>1, <2>1, <2>2 DEF Inv, TypeOK, moveVars
  <2>4. Heading' /\ Narrowed' /\ PinnedCounted'
    BY <1>1, <1>2, <2>1 DEF Inv, Heading, Narrowed, PinnedCounted, is_migration_disabled
  <2> QED BY <2>1, <2>2, <2>3, <2>4 DEF Keeps, Inv
<1>3. CASE cpu \notin m
  <2>1. PICK d \in m : affine_move_task(k, d)
    BY <1>3 DEF __set_cpus_allowed_ptr
  <2> QED BY <1>1, <1>3, <2>1, MoveKeeps
<1> QED BY <1>2, <1>3

-----------------------------------------------------------------------------
(* The callers return.                                                     *)

\* A step of a caller alone.
LEMMA CallerKeeps ==
  ASSUME Inv, UNCHANGED <<scenario, taskVars, migration_pending, stopq, moveVars>>,
         pend' \in [Callers -> Pending],
         pc' \in [Callers -> [at : {"idle", "wait", "drain"}, on : Callers \cup {None}]],
         OwnersStay', RefsCounted', InstalledWaits',
         \A o \in Callers : pend'[o].stop_pending = pend[o].stop_pending,
         migration_pending # None =>
            pend'[migration_pending].dest_cpu = pend[migration_pending].dest_cpu
  PROVE  Keeps
<1>1. TypeOK'
  BY DEF Inv, TypeOK, taskVars, moveVars
<1>2. OneWork'
  BY DEF Inv, OneWork
<1>3. Heading' /\ Narrowed' /\ PinnedCounted'
  BY DEF Inv, Heading, Narrowed, PinnedCounted, is_migration_disabled, taskVars
<1> QED BY <1>1, <1>2, <1>3 DEF Keeps, Inv, taskVars

LEMMA CompletionKeeps ==
  ASSUME Inv, UNCHANGED scenario, NEW k \in Callers, wait_for_completion(k)
  PROVE  Keeps
<1> DEFINE o == pc[k].on
           next == IF o = k THEN Drains(k) ELSE Idle
<1>1. /\ pend \in [Callers -> Pending] /\ migration_pending \in Callers \cup {None}
      /\ pc \in [Callers -> [at : {"idle", "wait", "drain"}, on : Callers \cup {None}]]
  BY DEF Inv, TypeOK
<1>2. /\ pc[k].at = "wait" /\ pend[o].done
      /\ pend' = [pend EXCEPT ![o].refs = @ - 1] /\ pc' = [pc EXCEPT ![k] = next]
      /\ UNCHANGED <<taskVars, migration_pending, stopq, moveVars>>
  BY DEF wait_for_completion, Drains
<1>3. o \in Callers /\ pc[k] = Waits(o) /\ pend[o].live
  <2>1. pc[k] # Idle /\ pc[k] # Drains(k)
    BY <1>2 DEF Idle, Drains
  <2>2. PICK i \in Callers : pc[k] = Waits(i) /\ pend[i].live
    BY <2>1 DEF Inv, OwnersStay
  <2> QED BY <2>2 DEF Waits
<1>4. /\ k \in Waiters(o) /\ IsFiniteSet(Waiters(o)) /\ Cardinality(Waiters(o)) \in Nat
      /\ Cardinality(Waiters(o) \ {k}) = Cardinality(Waiters(o)) - 1
      /\ Cardinality(Waiters(o) \ {k}) \in 0 .. Cardinality(Callers)
  <2>1. k \in Waiters(o)
    BY <1>3 DEF Waiters
  <2>2. IsFiniteSet(Waiters(o)) /\ Cardinality(Waiters(o)) \in 0 .. Cardinality(Callers)
    BY <1>3, WaitersCounted
  <2>3. Cardinality(Waiters(o)) \in Nat
    BY <2>2, FS_CardinalityType
  <2>4. /\ IsFiniteSet(Waiters(o) \ {k})
        /\ Cardinality(Waiters(o) \ {k}) = Cardinality(Waiters(o)) - 1
    BY <2>1, <2>2, FS_RemoveElement
  <2>5. Cardinality(Waiters(o) \ {k}) \in Nat
    BY <2>4, FS_CardinalityType
  <2>6. Cardinality(Callers) \in Nat
    BY CallerAssumption, FS_CardinalityType
  <2> QED BY <2>1, <2>2, <2>3, <2>4, <2>5, <2>6
<1>5. pend[o].refs - 1 = Cardinality(Waiters(o) \ {k})
  BY <1>3, <1>4 DEF Inv, RefsCounted
<1>6. /\ pend' \in [Callers -> Pending] /\ pend'[o].refs = Cardinality(Waiters(o) \ {k})
      /\ \A j \in Callers : /\ pend'[j].live = pend[j].live /\ pend'[j].done = pend[j].done
                            /\ pend'[j].stop_pending = pend[j].stop_pending
                            /\ pend'[j].dest_cpu = pend[j].dest_cpu
                            /\ j # o => pend'[j].refs = pend[j].refs
  BY <1>1, <1>2, <1>3, <1>4, <1>5 DEF Pending
<1>7. /\ pc' \in [Callers -> [at : {"idle", "wait", "drain"}, on : Callers \cup {None}]]
      /\ pc'[k] = next /\ \A j \in Callers \ {k} : pc'[j] = pc[j]
  BY <1>1, <1>2 DEF Idle, Drains
<1> HIDE DEF o
<1>8. \A j \in Callers : Waiters(j)' = IF j = o THEN Waiters(j) \ {k} ELSE Waiters(j)
  <2>1. \A j \in Callers : Waits(j) = Waits(o) => j = o
    BY DEF Waits
  <2>2. \A j \in Callers : next # Waits(j)
    BY DEF Idle, Drains, Waits
  <2> HIDE DEF next
  <2> QED BY <1>3, <1>7, <2>1, <2>2 DEF Waiters
<1>9. RefsCounted'
  <2>1. ASSUME NEW j \in Callers, pend'[j].live PROVE pend'[j].refs = Cardinality(Waiters(j))'
    BY <1>6, <1>8, <2>1 DEF Inv, RefsCounted
  <2> QED BY <2>1 DEF RefsCounted
<1>10. OwnersStay'
  <2>1. ASSUME NEW j \in Callers
        PROVE  /\ pend'[j].live <=> pc'[j] \in {Waits(j), Drains(j)}
               /\ pc'[j] = Idle \/ pc'[j] = Drains(j)
                  \/ \E i \in Callers : pc'[j] = Waits(i) /\ pend'[i].live
    <3>1. CASE j # k
      BY <1>6, <1>7, <3>1 DEF Inv, OwnersStay
    <3>2. CASE j = k /\ o = k
      BY <1>3, <1>6, <1>7, <3>2
    <3>3. CASE j = k /\ o # k
      <4>1. Waits(o) # Waits(k) /\ Waits(o) # Drains(k) /\ Idle # Waits(k) /\ Idle # Drains(k)
        BY <3>3 DEF Waits, Drains, Idle
      <4>2. ~pend[k].live
        BY <1>3, <4>1 DEF Inv, OwnersStay
      <4> QED BY <1>6, <1>7, <3>3, <4>1, <4>2
    <3> QED BY <3>1, <3>2, <3>3
  <2> QED BY <2>1 DEF OwnersStay, Waits, Drains, Idle
<1>11. InstalledWaits'
  <2>1. migration_pending # o
    BY <1>2, <1>3, CallerAssumption DEF Inv, InstalledWaits, o
  <2>2. migration_pending # None => migration_pending # k
    <3>1. migration_pending # None => pc[migration_pending] = Waits(migration_pending)
      BY DEF Inv, InstalledWaits
    <3> QED BY <1>3, <2>1, <3>1 DEF Waits
  <2> QED BY <1>1, <1>2, <1>6, <1>7, <2>2 DEF Inv, InstalledWaits, Waits
<1>12. migration_pending # None =>
          pend'[migration_pending].dest_cpu = pend[migration_pending].dest_cpu
  BY <1>1, <1>6
<1>13. \A j \in Callers : pend'[j].stop_pending = pend[j].stop_pending
  BY <1>6
<1> QED BY <1>2, <1>6, <1>7, <1>9, <1>10, <1>11, <1>12, <1>13, CallerKeeps

LEMMA ReturnKeeps ==
  ASSUME Inv, UNCHANGED scenario, NEW k \in Callers, wait_var_event(k)
  PROVE  Keeps
<1>1. /\ pend \in [Callers -> Pending] /\ migration_pending \in Callers \cup {None}
      /\ pc \in [Callers -> [at : {"idle", "wait", "drain"}, on : Callers \cup {None}]]
  BY DEF Inv, TypeOK
<1>2. /\ pc[k].at = "drain" /\ pend[k].refs = 0
      /\ pend' = [pend EXCEPT ![k] = NoPending] /\ pc' = [pc EXCEPT ![k] = Idle]
      /\ UNCHANGED <<taskVars, migration_pending, stopq, moveVars>>
  BY DEF wait_var_event
<1>3. pc[k] = Drains(k) /\ pend[k].live
  <2>1. pc[k] # Idle /\ \A i \in Callers : pc[k] # Waits(i)
    BY <1>2 DEF Idle, Waits
  <2>2. pc[k] = Drains(k)
    BY <2>1 DEF Inv, OwnersStay
  <2> QED BY <2>2 DEF Inv, OwnersStay
<1>4. Waiters(k) = {}
  <2>1. IsFiniteSet(Waiters(k)) /\ Cardinality(Waiters(k)) = 0
    BY <1>2, <1>3, WaitersCounted DEF Inv, RefsCounted
  <2> QED BY <2>1, FS_EmptySet
<1>5. migration_pending # k /\ ~pend[k].stop_pending
  <2>1. migration_pending # k
    BY <1>3, CallerAssumption DEF Inv, InstalledWaits, Waits, Drains
  <2> QED BY <2>1 DEF Inv, OneWork
<1>6. NoPending \in Pending
  BY CallerAssumption, FS_CardinalityType DEF NoPending, Pending
<1>7. /\ pend' \in [Callers -> Pending] /\ pend'[k] = NoPending
      /\ pc' \in [Callers -> [at : {"idle", "wait", "drain"}, on : Callers \cup {None}]]
      /\ pc'[k] = Idle /\ \A j \in Callers \ {k} : pc'[j] = pc[j] /\ pend'[j] = pend[j]
  BY <1>1, <1>2, <1>6 DEF Idle
<1>8. \A j \in Callers : Waiters(j)' = Waiters(j)
  <2>1. \A j \in Callers : Idle # Waits(j) /\ Drains(k) # Waits(j)
    BY DEF Idle, Waits, Drains
  <2> QED BY <1>3, <1>7, <2>1 DEF Waiters
<1>9. RefsCounted'
  <2>1. ASSUME NEW j \in Callers, pend'[j].live PROVE pend'[j].refs = Cardinality(Waiters(j))'
    BY <1>7, <1>8, <2>1 DEF Inv, RefsCounted, NoPending
  <2> QED BY <2>1 DEF RefsCounted
<1>10. OwnersStay'
  <2>1. ASSUME NEW j \in Callers
        PROVE  /\ pend'[j].live <=> pc'[j] \in {Waits(j), Drains(j)}
               /\ pc'[j] = Idle \/ pc'[j] = Drains(j)
                  \/ \E i \in Callers : pc'[j] = Waits(i) /\ pend'[i].live
    <3>1. CASE j = k
      BY <1>7, <3>1 DEF NoPending, Idle, Waits, Drains
    <3>2. CASE j # k
      <4>1. pend'[j].live <=> pc'[j] \in {Waits(j), Drains(j)}
        BY <1>7, <3>2 DEF Inv, OwnersStay
      <4>2. ASSUME NEW i \in Callers, pc[j] = Waits(i) PROVE i # k
        BY <1>4, <4>2 DEF Waiters
      <4>3. pc'[j] = Idle \/ pc'[j] = Drains(j) \/ \E i \in Callers : pc'[j] = Waits(i) /\ pend'[i].live
        BY <1>7, <3>2, <4>2 DEF Inv, OwnersStay
      <4> QED BY <4>1, <4>3
    <3> QED BY <3>1, <3>2
  <2> QED BY <2>1 DEF OwnersStay, Waits, Drains, Idle
<1>11. InstalledWaits'
  BY <1>1, <1>2, <1>5, <1>7 DEF Inv, InstalledWaits, Waits
<1>12. migration_pending # None =>
          pend'[migration_pending].dest_cpu = pend[migration_pending].dest_cpu
  BY <1>1, <1>5, <1>7
<1>13. \A j \in Callers : pend'[j].stop_pending = pend[j].stop_pending
  BY <1>5, <1>7, <1>1 DEF NoPending, Pending
<1> QED BY <1>2, <1>7, <1>9, <1>10, <1>11, <1>12, <1>13, CallerKeeps

-----------------------------------------------------------------------------
(* Migrate-disabled regions.                                               *)

LEMMA NestingNat ==
  ASSUME Inv
  PROVE  scenario.nesting \in Nat
<1>1. scenario \in Scenarios
  BY DEF Inv, TypeOK
<1> QED BY <1>1, ScenarioAssumption

\* affine_move_task() at the end of a region.
LEMMA EnableKeeps ==
  ASSUME Inv, affine_move_task_enable
  PROVE  /\ OwnersStay' /\ RefsCounted' /\ InstalledWaits' /\ OneWork'
         /\ migration_pending' \in Callers \cup {None} /\ pend' \in [Callers -> Pending]
         /\ stopq' \in [CPUs -> SUBSET (Callers \cup {Exec})] /\ pc' = pc
<1> DEFINE o == migration_pending
           p1 == [pend EXCEPT ![o].stop_pending = TRUE]
<1>1. /\ migration_pending \in Callers \cup {None} /\ pend \in [Callers -> Pending]
      /\ stopq \in [CPUs -> SUBSET (Callers \cup {Exec})]
  BY DEF Inv, TypeOK
<1>2. CASE cpu \in cpus_mask
  <2>1. affine_move_task_stays(self)
    BY <1>2 DEF affine_move_task_enable
  <2> QED BY <1>1, <2>1, StaysKeeps
<1>3. CASE cpu \notin cpus_mask /\ o = None
  <2>1. UNCHANGED pendVars
    BY <1>3 DEF affine_move_task_enable
  <2> QED BY <1>1, <2>1, PendingsKept DEF pendVars
<1>4. CASE cpu \notin cpus_mask /\ o # None
  <2>1. /\ pend' = p1 /\ UNCHANGED <<migration_pending, pc>>
        /\ stopq' = IF pend[o].stop_pending THEN stopq ELSE [stopq EXCEPT ![cpu] = @ \cup {o}]
    BY <1>4 DEF affine_move_task_enable
  <2>2. o \in Callers
    BY <1>1, <1>4
  <2>3. \A j \in Callers : j # o => ~pend[j].stop_pending
    BY DEF Inv, OneWork
  <2>4. pend[o].stop_pending \/ \A c \in CPUs : o \notin stopq[c]
    BY <2>2 DEF Inv, OneWork
  <2>5. OneWork' /\ pend' \in [Callers -> Pending] /\ stopq' \in [CPUs -> SUBSET (Callers \cup {Exec})]
    <3>1. PICK i \in Callers : i = migration_pending
      BY <2>2
    <3>2. PICK q : q = pend
      OBVIOUS
    <3>3. /\ q \in [Callers -> Pending] /\ pend' = [q EXCEPT ![i].stop_pending = TRUE] /\ migration_pending' = i
          /\ stopq' = IF q[i].stop_pending THEN stopq ELSE [stopq EXCEPT ![cpu] = @ \cup {i}]
          /\ \A j \in Callers : q[j].stop_pending = pend[j].stop_pending
      BY <1>1, <2>1, <3>1, <3>2
    <3>4. /\ \A j \in Callers : j # i => ~pend[j].stop_pending
          /\ pend[i].stop_pending \/ \A c \in CPUs : i \notin stopq[c]
      BY <2>3, <2>4, <3>1
    <3> QED BY <3>3, <3>4, WorkQueued
  <2>6. \A j \in Callers : pend'[j].live = pend[j].live /\ pend'[j].refs = pend[j].refs
                           /\ pend'[j].done = pend[j].done
    BY <1>1, <2>1, <2>2 DEF Pending
  <2>7. OwnersStay' /\ RefsCounted' /\ InstalledWaits'
    <3>1. OwnersStay' /\ RefsCounted'
      BY <2>1, <2>6 DEF Inv, OwnersStay, RefsCounted, Waiters
    <3>2. InstalledWaits'
      BY <1>4, <2>1, <2>2, <2>6 DEF Inv, InstalledWaits
    <3> QED BY <3>1, <3>2
  <2> QED BY <1>1, <2>1, <2>5, <2>7
<1> QED BY <1>2, <1>3, <1>4

LEMMA RegionKeeps ==
  ASSUME Inv, UNCHANGED scenario, Region
  PROVE  Keeps
<1>1. /\ migration_disabled \in 0 .. scenario.nesting /\ scenario.nesting \in Nat
      /\ cpu \in CPUs /\ nr_pinned \in [CPUs -> Nat]
  <2>1. migration_disabled \in 0 .. scenario.nesting
    BY DEF Inv, TypeOK
  <2> QED BY <2>1, NestingNat DEF Inv, TypeOK
<1>2. CASE migrate_disable
  <2>1. /\ run = "running" /\ ~enabling /\ migration_disabled < scenario.nesting
        /\ nr_pinned' = IF is_migration_disabled THEN nr_pinned ELSE [nr_pinned EXCEPT ![cpu] = @ + 1]
        /\ migration_disabled' = migration_disabled + 1
        /\ UNCHANGED <<run, cpu, cpus_mask, cpus_ptr, enabling, pendVars, moveVars>>
    BY <1>2 DEF migrate_disable
  <2>2. OwnersStay' /\ RefsCounted' /\ InstalledWaits' /\ OneWork'
    BY <2>1, PendingsKept
  <2>3. migration_disabled' \in 0 .. scenario.nesting /\ nr_pinned' \in [CPUs -> Nat]
    BY <1>1, <2>1
  <2>4. TypeOK'
    BY <2>1, <2>3 DEF Inv, TypeOK, pendVars, moveVars
  <2>5. Heading'
    BY <2>1 DEF Inv, Heading, pendVars
  <2>6. Narrowed'
    BY <1>1, <2>1 DEF Inv, Narrowed, is_migration_disabled
  <2>7. PinnedCounted'
    BY <1>1, <2>1 DEF Inv, PinnedCounted, is_migration_disabled
  <2> QED BY <2>1, <2>2, <2>4, <2>5, <2>6, <2>7 DEF Keeps, Inv
<1>3. CASE migrate_enable_nested
  <2>1. /\ run = "running" /\ ~enabling /\ migration_disabled > 1
        /\ migration_disabled' = migration_disabled - 1
        /\ UNCHANGED <<run, cpu, cpus_mask, cpus_ptr, enabling, nr_pinned, pendVars, moveVars>>
    BY <1>3 DEF migrate_enable_nested
  <2>2. OwnersStay' /\ RefsCounted' /\ InstalledWaits' /\ OneWork'
    BY <2>1, PendingsKept
  <2>3. migration_disabled' \in 0 .. scenario.nesting /\ migration_disabled' # 0 /\ migration_disabled # 0
    BY <1>1, <2>1
  <2>4. TypeOK'
    BY <2>1, <2>3 DEF Inv, TypeOK, pendVars, moveVars
  <2>5. Heading' /\ Narrowed' /\ PinnedCounted'
    BY <2>1, <2>3 DEF Inv, Heading, Narrowed, PinnedCounted, is_migration_disabled, pendVars
  <2> QED BY <2>1, <2>2, <2>4, <2>5 DEF Keeps, Inv
<1>4. CASE migrate_enable
  <2>1. /\ run = "running" /\ migration_disabled = 1 /\ enabling' = TRUE /\ cpus_ptr' = OwnMask
        /\ IF cpus_ptr # OwnMask THEN affine_move_task_enable ELSE UNCHANGED pendVars
        /\ UNCHANGED <<run, cpu, cpus_mask, migration_disabled, nr_pinned, moveVars>>
    BY <1>4 DEF migrate_enable
  <2>2. /\ OwnersStay' /\ RefsCounted' /\ InstalledWaits' /\ OneWork'
        /\ migration_pending' \in Callers \cup {None} /\ pend' \in [Callers -> Pending]
        /\ stopq' \in [CPUs -> SUBSET (Callers \cup {Exec})] /\ pc' = pc
    <3>1. CASE affine_move_task_enable
      BY <3>1, EnableKeeps
    <3>2. CASE UNCHANGED pendVars
      BY <3>2, PendingsKept DEF pendVars, Inv, TypeOK
    <3> QED BY <2>1, <3>1, <3>2
  <2>3. TypeOK'
    BY <2>1, <2>2 DEF Inv, TypeOK, moveVars
  <2>4. Heading'
    BY <1>1, <2>1 DEF Heading
  <2>5. Narrowed' /\ PinnedCounted'
    BY <2>1 DEF Inv, Narrowed, PinnedCounted, is_migration_disabled
  <2> QED BY <2>1, <2>2, <2>3, <2>4, <2>5 DEF Keeps, Inv
<1>5. CASE migrate_enable_finish
  <2>1. /\ enabling /\ enabling' = FALSE /\ run' \in {"queued", run} /\ migration_disabled' = 0
        /\ nr_pinned' = [nr_pinned EXCEPT ![cpu] = @ - 1]
        /\ UNCHANGED <<cpu, cpus_mask, cpus_ptr, pendVars, moveVars>>
    BY <1>5 DEF migrate_enable_finish
  <2>2. migration_disabled = 1 /\ cpus_ptr = OwnMask /\ run = "running"
    BY <2>1 DEF Inv, Narrowed
  <2>3. \A c \in CPUs : nr_pinned'[c] = 0
    BY <1>1, <2>1, <2>2 DEF Inv, PinnedCounted, is_migration_disabled
  <2>4. nr_pinned' \in [CPUs -> Nat]
    <3>1. nr_pinned' = [c \in CPUs |-> nr_pinned'[c]]
      BY <1>1, <2>1
    <3> QED BY <2>3, <3>1
  <2>5. OwnersStay' /\ RefsCounted' /\ InstalledWaits' /\ OneWork'
    BY <2>1, PendingsKept
  <2>6. TypeOK'
    <3>1. migration_disabled' \in 0 .. scenario.nesting /\ run' \in {"running", "queued", "sleeping", "waking"}
      BY <1>1, <2>1, <2>2
    <3> QED BY <2>1, <2>4, <3>1 DEF Inv, TypeOK, pendVars, moveVars
  <2>7. Heading'
    BY <1>1, <2>1, <2>2 DEF Heading
  <2>8. Narrowed' /\ PinnedCounted'
    BY <2>1, <2>2, <2>3 DEF Narrowed, PinnedCounted, is_migration_disabled
  <2> QED BY <2>1, <2>5, <2>6, <2>7, <2>8 DEF Keeps, Inv
<1> QED BY <1>2, <1>3, <1>4, <1>5 DEF Region

-----------------------------------------------------------------------------
(* The stoppers and the other ways to be moved.                            *)

\* A stopper of CPU c finds the task off that CPU; what it leaves in place stays in place.
LEMMA StopperLeaves ==
  ASSUME Inv, NEW c \in CPUs, StopperRuns(c), run' = Flushed(c), cpu' = cpu,
         UNCHANGED <<scenario, cpus_mask, cpus_ptr, migration_disabled, enabling, nr_pinned>>
  PROVE  Narrowed' /\ PinnedCounted' /\ run' \in {"running", "queued", "sleeping", "waking"}
         /\ (run' = "sleeping" <=> run = "sleeping")
<1>1. run \in {"running", "queued", "sleeping", "waking"}
  BY DEF Inv, TypeOK
<1>2. \/ run' = run
      \/ run = "waking" /\ run' = "queued"
  BY DEF Flushed
<1>3. Narrowed' /\ PinnedCounted'
  BY <1>2 DEF Inv, Narrowed, PinnedCounted, is_migration_disabled
<1> QED BY <1>1, <1>2, <1>3

LEMMA ExecKeeps ==
  ASSUME Inv, UNCHANGED scenario, sched_exec
  PROVE  Keeps
<1>1. /\ exec' \in AllowedMask /\ stopq' = [stopq EXCEPT ![cpu] = @ \cup {Exec}]
      /\ UNCHANGED <<taskVars, migration_pending, pend, pc, swap>>
  BY DEF sched_exec
<1>2. cpu \in CPUs /\ stopq \in [CPUs -> SUBSET (Callers \cup {Exec})] /\ AllowedMask \subseteq CPUs
  BY CpuAssumption DEF Inv, TypeOK, AllowedMask
<1>3. \A o \in Callers, c \in CPUs : o \in stopq'[c] <=> o \in stopq[c]
  BY <1>1, <1>2, CallerAssumption
<1>4. TypeOK'
  <2>1. stopq' \in [CPUs -> SUBSET (Callers \cup {Exec})]
    BY <1>1, <1>2
  <2> QED BY <1>1, <1>2, <2>1 DEF Inv, TypeOK, taskVars
<1>5. OwnersStay' /\ RefsCounted' /\ InstalledWaits'
  BY <1>1 DEF Inv, OwnersStay, RefsCounted, InstalledWaits, Waiters
<1>6. OneWork'
  BY <1>1, <1>3 DEF Inv, OneWork
<1>7. Heading' /\ Narrowed' /\ PinnedCounted'
  BY <1>1 DEF Inv, Heading, Narrowed, PinnedCounted, is_migration_disabled, taskVars
<1> QED BY <1>1, <1>4, <1>5, <1>6, <1>7 DEF Keeps, Inv, taskVars

LEMMA ExecStopKeeps ==
  ASSUME Inv, UNCHANGED scenario, NEW c \in CPUs, sched_exec_stop(c)
  PROVE  Keeps
<1>1. /\ StopperRuns(c) /\ run' = Flushed(c)
      /\ cpu' = IF cpu = c /\ ~is_migration_disabled /\ run' = "queued" THEN __migrate_task(exec) ELSE cpu
      /\ stopq' = [stopq EXCEPT ![c] = @ \ {Exec}] /\ exec' = None
      /\ UNCHANGED <<cpus_mask, cpus_ptr, migration_disabled, enabling, nr_pinned, migration_pending,
                     pend, pc, swap>>
  BY DEF sched_exec_stop
<1>2. cpu \in CPUs /\ stopq \in [CPUs -> SUBSET (Callers \cup {Exec})]
  BY DEF Inv, TypeOK
<1>3. \A o \in Callers, e \in CPUs : o \in stopq'[e] <=> o \in stopq[e]
  BY <1>1, <1>2, CallerAssumption
<1>4. /\ Narrowed' /\ PinnedCounted' /\ cpu' \in CPUs /\ Heading'
      /\ is_migration_disabled => cpu' = cpu
      /\ run' \in {"running", "queued", "sleeping", "waking"}
  <2>1. CASE cpu' = cpu
    <3>1. /\ Narrowed' /\ PinnedCounted' /\ run' \in {"running", "queued", "sleeping", "waking"}
          /\ (run' = "sleeping" <=> run = "sleeping")
      BY <1>1, <2>1, StopperLeaves
    <3> QED BY <1>1, <1>2, <2>1, <3>1 DEF Inv, Heading
  <2>2. CASE cpu' # cpu
    <3>1. cpu = c /\ ~is_migration_disabled /\ run' = "queued" /\ cpu' = exec /\ exec \in AllowedMask
      BY <1>1, <2>2 DEF __migrate_task, is_cpu_allowed
    <3>2. PICK d \in AllowedMask : cpu' = d
      BY <3>1
    <3>3. run # "running"
      BY <1>1, <3>1 DEF StopperRuns
    <3>4. /\ d \in CPUs /\ Narrowed' /\ PinnedCounted'
          /\ scenario.nesting = 0 => d \in cpus_mask
      BY <1>1, <3>2, <3>3, MovedWithinMask
    <3> QED BY <1>1, <3>1, <3>2, <3>4 DEF Heading
  <2> QED BY <2>1, <2>2
<1>5. TypeOK'
  <2>1. stopq' \in [CPUs -> SUBSET (Callers \cup {Exec})]
    BY <1>1, <1>2
  <2> QED BY <1>1, <1>4, <2>1 DEF Inv, TypeOK
<1>6. OwnersStay' /\ RefsCounted' /\ InstalledWaits'
  BY <1>1 DEF Inv, OwnersStay, RefsCounted, InstalledWaits, Waiters
<1>7. OneWork'
  BY <1>1, <1>3 DEF Inv, OneWork
<1> QED BY <1>1, <1>4, <1>5, <1>6, <1>7 DEF Keeps, Inv

LEMMA SwapKeeps ==
  ASSUME Inv, UNCHANGED scenario, NEW c \in CPUs, migrate_swap(c) \/ migrate_swap_stop
  PROVE  Keeps
<1>1. cpu \in CPUs /\ AllowedMask \subseteq CPUs /\ swap \in [src : CPUs, dst : CPUs] \cup {NoSwap}
  BY CpuAssumption DEF Inv, TypeOK, AllowedMask
<1>2. CASE migrate_swap(c)
  <2>1. swap' = [src |-> cpu, dst |-> c] /\ UNCHANGED <<taskVars, pendVars, exec>>
    BY <1>2 DEF migrate_swap
  <2>2. TypeOK'
    BY <1>1, <2>1 DEF Inv, TypeOK, taskVars, pendVars
  <2>3. OwnersStay' /\ RefsCounted' /\ InstalledWaits' /\ OneWork'
    BY <2>1, PendingsKept
  <2>4. Heading' /\ Narrowed' /\ PinnedCounted'
    BY <2>1 DEF Inv, Heading, Narrowed, PinnedCounted, is_migration_disabled, taskVars, pendVars
  <2> QED BY <2>1, <2>2, <2>3, <2>4 DEF Keeps, Inv, taskVars
<1>3. CASE migrate_swap_stop
  <2>1. /\ StopperRuns(swap.src) /\ swap' = NoSwap
        /\ UNCHANGED <<run, cpus_mask, cpus_ptr, migration_disabled, enabling, nr_pinned, pendVars, exec>>
    BY <1>3 DEF migrate_swap_stop
  <2>2. /\ Narrowed' /\ PinnedCounted' /\ cpu' \in CPUs /\ Heading'
        /\ is_migration_disabled => cpu' = cpu
    <3>1. CASE cpu' = cpu
      BY <1>1, <2>1, <3>1 DEF Inv, Heading, Narrowed, PinnedCounted, is_migration_disabled, pendVars
    <3>2. CASE cpu' # cpu
      <4>1. cpu = swap.src /\ swap.dst \in AllowedMask /\ run = "queued" /\ cpu' = swap.dst
        BY <1>3, <3>2 DEF migrate_swap_stop, __migrate_swap_task, set_task_cpu, is_cpu_allowed
      <4>2. PICK d \in AllowedMask : cpu' = d
        BY <4>1
      <4>3. /\ d \in CPUs /\ Narrowed' /\ PinnedCounted'
            /\ is_migration_disabled => d = cpu
            /\ scenario.nesting = 0 => d \in cpus_mask
        BY <2>1, <4>1, <4>2, MovedWithinMask
      <4> QED BY <2>1, <4>2, <4>3 DEF Heading
    <3> QED BY <3>1, <3>2
  <2>3. TypeOK'
    BY <2>1, <2>2 DEF Inv, TypeOK, pendVars
  <2>4. OwnersStay' /\ RefsCounted' /\ InstalledWaits' /\ OneWork'
    BY <2>1, PendingsKept
  <2> QED BY <2>1, <2>2, <2>3, <2>4 DEF Keeps, Inv
<1> QED BY <1>2, <1>3

\* A stopper has done the work of the pending o, and completes it or not.
LEMMA FinishKeeps ==
  ASSUME Inv, NEW c \in CPUs, NEW o \in Callers, o \in stopq[c], NEW complete \in BOOLEAN,
         migration_pending' = IF complete THEN None ELSE migration_pending,
         pend' = [pend EXCEPT ![o].stop_pending = FALSE, ![o].done = @ \/ complete],
         stopq' = [stopq EXCEPT ![c] = @ \ {o}], pc' = pc
  PROVE  /\ OwnersStay' /\ RefsCounted' /\ InstalledWaits' /\ OneWork'
         /\ pend' \in [Callers -> Pending] /\ stopq' \in [CPUs -> SUBSET (Callers \cup {Exec})]
         /\ migration_pending = o /\ pend'[o].dest_cpu = pend[o].dest_cpu
<1>1. /\ pend \in [Callers -> Pending] /\ stopq \in [CPUs -> SUBSET (Callers \cup {Exec})]
  BY DEF Inv, TypeOK
<1>2. /\ migration_pending = o /\ \A e \in CPUs : o \in stopq[e] => e = c
      /\ \A j \in Callers : j # o => ~pend[j].stop_pending
  BY DEF Inv, OneWork
<1>3. /\ pend' \in [Callers -> Pending] /\ pend'[o].dest_cpu = pend[o].dest_cpu
      /\ ~pend'[o].stop_pending /\ (~complete => pend'[o].done = pend[o].done)
      /\ \A j \in Callers : pend'[j].live = pend[j].live /\ pend'[j].refs = pend[j].refs
      /\ \A j \in Callers : j # o => pend'[j] = pend[j]
  BY <1>1 DEF Pending
<1>4. /\ stopq' \in [CPUs -> SUBSET (Callers \cup {Exec})]
      /\ \A j \in Callers, e \in CPUs : j \notin stopq'[e]
  <2>1. \A j \in Callers, e \in CPUs : j # o => j \notin stopq[e]
    BY <1>2 DEF Inv, OneWork
  <2> QED BY <1>1, <1>2, <2>1
<1>5. OwnersStay' /\ RefsCounted'
  BY <1>3 DEF Inv, OwnersStay, RefsCounted, Waiters
<1>6. InstalledWaits'
  BY <1>2, <1>3 DEF Inv, InstalledWaits, Waits
<1>7. OneWork'
  BY <1>2, <1>3, <1>4 DEF OneWork
<1> QED BY <1>2, <1>3, <1>4, <1>5, <1>6, <1>7

\* The work of a pending is sent after the task to the CPU it is on now.
LEMMA ResentKeeps ==
  ASSUME Inv, NEW c \in CPUs, NEW o \in Callers, o \in stopq[c], cpu # c,
         stopq' = [stopq EXCEPT ![c] = @ \ {o}, ![cpu] = @ \cup {o}],
         UNCHANGED <<migration_pending, pend, pc>>
  PROVE  /\ OwnersStay' /\ RefsCounted' /\ InstalledWaits' /\ OneWork'
         /\ stopq' \in [CPUs -> SUBSET (Callers \cup {Exec})]
<1>1. cpu \in CPUs /\ stopq \in [CPUs -> SUBSET (Callers \cup {Exec})]
  BY DEF Inv, TypeOK
<1>2. /\ \A e \in CPUs : o \in stopq[e] => e = c
      /\ \A j \in Callers, e \in CPUs : j # o => j \notin stopq[e]
      /\ pend[o].stop_pending
  BY DEF Inv, OneWork
<1>3. /\ stopq' \in [CPUs -> SUBSET (Callers \cup {Exec})]
      /\ \A j \in Callers, e \in CPUs : j \in stopq'[e] <=> j = o /\ e = cpu
  BY <1>1, <1>2
<1>4. OwnersStay' /\ RefsCounted' /\ InstalledWaits'
  BY DEF Inv, OwnersStay, RefsCounted, InstalledWaits, Waiters
<1>5. OneWork'
  BY <1>1, <1>2, <1>3 DEF Inv, OneWork
<1> QED BY <1>3, <1>4, <1>5

LEMMA MigrationStopKeeps ==
  ASSUME Inv, UNCHANGED scenario, NEW c \in CPUs, NEW o \in Callers, migration_cpu_stop(c, o)
  PROVE  Keeps
<1> DEFINE rest == [stopq EXCEPT ![c] = @ \ {o}]
           Finish(complete) ==
             /\ migration_pending' = IF complete THEN None ELSE migration_pending
             /\ pend' = [pend EXCEPT ![o].stop_pending = FALSE, ![o].done = @ \/ complete]
             /\ stopq' = rest
<1>1. /\ o \in stopq[c] /\ StopperRuns(c) /\ run' = Flushed(c)
      /\ UNCHANGED <<cpus_mask, cpus_ptr, migration_disabled, enabling, nr_pinned, pc, moveVars>>
  BY DEF migration_cpu_stop
<1>2. /\ cpu \in CPUs /\ stopq \in [CPUs -> SUBSET (Callers \cup {Exec})] /\ pend \in [Callers -> Pending]
      /\ migration_pending = o
      /\ run \in {"running", "queued", "sleeping", "waking"}
      /\ migration_disabled \in 0 .. scenario.nesting
  BY <1>1 DEF Inv, TypeOK, OneWork
<1>3. ASSUME OwnersStay', RefsCounted', InstalledWaits', OneWork', Heading', Narrowed', PinnedCounted',
             migration_pending' \in Callers \cup {None}, pend' \in [Callers -> Pending],
             stopq' \in [CPUs -> SUBSET (Callers \cup {Exec})], cpu' \in CPUs,
             run' \in {"running", "queued", "sleeping", "waking"},
             is_migration_disabled => cpu' = cpu
      PROVE  Keeps
  <2>1. TypeOK'
    BY <1>1, <1>3 DEF Inv, TypeOK, moveVars
  <2> QED BY <1>3, <2>1 DEF Keeps, Inv
<1>4. ASSUME cpu' = cpu
      PROVE  /\ Narrowed' /\ PinnedCounted' /\ run' \in {"running", "queued", "sleeping", "waking"}
             /\ (run' = "sleeping" <=> run = "sleeping")
  BY <1>1, <1>4, StopperLeaves
<1>5. CASE cpu = c /\ is_migration_disabled
  <2>1. Finish(FALSE) /\ cpu' = cpu
    BY <1>5 DEF migration_cpu_stop
  <2>2. /\ OwnersStay' /\ RefsCounted' /\ InstalledWaits' /\ OneWork'
        /\ pend' \in [Callers -> Pending] /\ stopq' \in [CPUs -> SUBSET (Callers \cup {Exec})]
    BY <1>1, <2>1, FinishKeeps
  <2>3. Heading'
    BY <1>2, <1>5 DEF Heading, is_migration_disabled
  <2>4. migration_pending' \in Callers \cup {None}
    BY <1>2, <2>1
  <2> QED BY <1>2, <1>3, <1>4, <2>1, <2>2, <2>3, <2>4
<1>6. CASE cpu = c /\ ~is_migration_disabled
  <2>1. /\ Finish(TRUE)
        /\ cpu' = IF cpu \notin cpus_mask /\ Flushed(c) = "queued"
                  THEN __migrate_task(pend[o].dest_cpu) ELSE cpu
    BY <1>6 DEF migration_cpu_stop
  <2>2. /\ OwnersStay' /\ RefsCounted' /\ InstalledWaits' /\ OneWork'
        /\ pend' \in [Callers -> Pending] /\ stopq' \in [CPUs -> SUBSET (Callers \cup {Exec})]
    BY <1>1, <2>1, FinishKeeps
  <2>3. run # "running" /\ run' = IF run = "waking" THEN "queued" ELSE run
    BY <1>1, <1>6 DEF StopperRuns, Flushed
  <2>4. migration_pending' \in Callers \cup {None}
    BY <2>1
  <2>5. cpus_ptr = OwnMask /\ AllowedMask = cpus_mask
    BY <1>6 DEF Inv, Narrowed, AllowedMask
  <2>6. CASE cpu' = cpu
    <3>1. Heading'
      <4> SUFFICES ASSUME scenario.nesting = 0, run' # "sleeping", cpu \notin cpus_mask PROVE FALSE
        BY <1>1, <2>6 DEF Heading
      <4>1. Flushed(c) = "queued" /\ run # "sleeping"
        BY <1>1, <1>2, <2>3
      <4>2. pend[o].dest_cpu \in cpus_mask
        BY <1>2, <4>1 DEF Inv, Heading
      <4> QED BY <2>1, <2>5, <2>6, <4>1, <4>2 DEF __migrate_task, is_cpu_allowed
    <3> QED BY <1>2, <1>3, <1>4, <2>2, <2>4, <2>6, <3>1
  <2>7. CASE cpu' # cpu
    <3>1. PICK d \in AllowedMask : cpu' = d
      BY <2>1, <2>7 DEF __migrate_task, is_cpu_allowed
    <3>2. /\ d \in CPUs /\ Narrowed' /\ PinnedCounted'
          /\ scenario.nesting = 0 => d \in cpus_mask
      BY <1>1, <2>3, <3>1, MovedWithinMask
    <3>3. Heading'
      BY <1>1, <3>1, <3>2 DEF Heading
    <3>4. run' \in {"running", "queued", "sleeping", "waking"}
      BY <1>2, <2>3
    <3> QED BY <1>3, <1>6, <2>2, <2>4, <3>1, <3>2, <3>3, <3>4
  <2> QED BY <2>6, <2>7
<1>7. CASE cpu # c /\ is_cpu_allowed(cpu)
  <2>1. Finish(TRUE) /\ cpu' = cpu
    BY <1>7 DEF migration_cpu_stop
  <2>2. /\ OwnersStay' /\ RefsCounted' /\ InstalledWaits' /\ OneWork'
        /\ pend' \in [Callers -> Pending] /\ stopq' \in [CPUs -> SUBSET (Callers \cup {Exec})]
    BY <1>1, <2>1, FinishKeeps
  <2>3. Heading'
    <3> SUFFICES ASSUME scenario.nesting = 0 PROVE cpu \in cpus_mask
      BY <1>1, <2>1 DEF Heading
    <3>1. ~is_migration_disabled
      BY <1>2 DEF is_migration_disabled
    <3> QED BY <1>7, <3>1 DEF Inv, Narrowed, AllowedMask, is_cpu_allowed
  <2>4. migration_pending' \in Callers \cup {None}
    BY <2>1
  <2> QED BY <1>2, <1>3, <1>4, <2>1, <2>2, <2>3, <2>4
<1>8. CASE cpu # c /\ ~is_cpu_allowed(cpu)
  <2>1. /\ stopq' = [rest EXCEPT ![cpu] = @ \cup {o}] /\ UNCHANGED <<cpu, migration_pending, pend>>
    BY <1>8 DEF migration_cpu_stop
  <2>2. stopq' = [stopq EXCEPT ![c] = @ \ {o}, ![cpu] = @ \cup {o}]
    BY <2>1
  <2>3. /\ OwnersStay' /\ RefsCounted' /\ InstalledWaits' /\ OneWork'
        /\ stopq' \in [CPUs -> SUBSET (Callers \cup {Exec})]
    BY <1>1, <1>8, <2>1, <2>2, ResentKeeps
  <2>4. Heading'
    BY <1>1, <1>4, <2>1 DEF Inv, Heading
  <2> QED BY <1>2, <1>3, <1>4, <2>1, <2>3, <2>4
<1> QED BY <1>5, <1>6, <1>7, <1>8

-----------------------------------------------------------------------------
(* The invariant, and what it implies.                                     *)

LEMMA NextKeeps == Inv /\ Next => Keeps
<1> SUFFICES ASSUME Inv, Next PROVE Keeps
  OBVIOUS
<1>1. Step /\ UNCHANGED scenario
  BY DEF Next
<1>2. CASE Schedule
  BY <1>1, <1>2, ScheduleKeeps
<1>3. CASE Region
  BY <1>1, <1>3, RegionKeeps
<1>4. CASE sched_exec
  BY <1>1, <1>4, ExecKeeps
<1>5. CASE migrate_swap_stop
  <2>1. PICK c \in CPUs : TRUE
    BY CpuAssumption
  <2> QED BY <1>1, <1>5, SwapKeeps
<1>6. ASSUME NEW c \in CPUs, Stopper(c) \/ migrate_swap(c) PROVE Keeps
  <2>1. CASE sched_exec_stop(c)
    BY <1>1, <2>1, ExecStopKeeps
  <2>2. CASE \E o \in Callers : migration_cpu_stop(c, o)
    BY <1>1, <2>2, MigrationStopKeeps
  <2>3. CASE migrate_swap(c)
    BY <1>1, <2>3, SwapKeeps
  <2> QED BY <1>6, <2>1, <2>2, <2>3 DEF Stopper
<1>7. ASSUME NEW k \in Callers,
             wait_for_completion(k) \/ wait_var_event(k)
             \/ \E m \in SUBSET CPUs : __set_cpus_allowed_ptr(k, m)
      PROVE  Keeps
  BY <1>1, <1>7, CompletionKeeps, ReturnKeeps, SetAffinityKeeps
<1> QED BY <1>1, <1>2, <1>3, <1>4, <1>5, <1>6, <1>7 DEF Step

LEMMA StutterKeeps == Inv /\ UNCHANGED vars => Keeps
<1> SUFFICES ASSUME Inv, UNCHANGED vars PROVE Keeps
  OBVIOUS
<1> USE DEF vars, stepVars, taskVars, pendVars, moveVars
<1>1. TypeOK'
  BY DEF Inv, TypeOK
<1>2. OwnersStay' /\ RefsCounted' /\ InstalledWaits' /\ OneWork'
  BY PendingsKept
<1>3. Heading' /\ Narrowed' /\ PinnedCounted'
  BY DEF Inv, Heading, Narrowed, PinnedCounted, is_migration_disabled
<1> QED BY <1>1, <1>2, <1>3 DEF Keeps, Inv

\* The inductive invariant of set_cpus_allowed_ptr(), the stoppers and the
\* migrate-disabled regions holds of every behaviour.
THEOREM AffinityInvariant == Spec => []Inv
<1>1. Inv /\ [Next]_vars => Inv'
  BY NextKeeps, StutterKeeps DEF Keeps
<1> QED BY InitInv, <1>1, PTL DEF Spec

\* The fields that set_cpus_allowed_ptr() and its stoppers share stay in their
\* ranges: the references to a pending never exceed the callers, and a mask is
\* never left empty.
THEOREM AffinityTypeCorrect == Spec => []TypeOK
<1>1. Inv => TypeOK
  BY DEF Inv
<1> QED BY AffinityInvariant, <1>1, PTL

\* set_cpus_allowed_ptr() and migration_cpu_stop() never use the pending on the
\* stack of a caller that returned; a stopper only completes the pending it was
\* started for, once; and without migrate-disabled regions a task that nobody
\* waits for any more runs on a CPU of the last mask set.
THEOREM PendingAlwaysSafe == Spec => []PendingSafe
<1>1. ASSUME Inv PROVE NoDanglingPending
  <2>1. ASSUME migration_pending # None
        PROVE  migration_pending \in Callers /\ pend[migration_pending].live
    <3>1. migration_pending \in Callers /\ pc[migration_pending] = Waits(migration_pending)
      BY <1>1, <2>1 DEF Inv, TypeOK, InstalledWaits
    <3> QED BY <1>1, <3>1 DEF Inv, OwnersStay
  <2>2. ASSUME NEW c \in CPUs, NEW o \in Callers, o \in stopq[c] PROVE pend[o].live
    <3>1. migration_pending = o
      BY <1>1, <2>2 DEF Inv, OneWork
    <3> QED BY <2>1, <3>1, CallerAssumption
  <2>3. ASSUME NEW k \in Callers, pc[k].at # "idle" PROVE pend[pc[k].on].live
    <3>1. pc[k] # Idle
      BY <2>3 DEF Idle
    <3>2. CASE pc[k] = Drains(k)
      BY <1>1, <3>2 DEF Inv, OwnersStay, Drains
    <3>3. CASE \E o \in Callers : pc[k] = Waits(o) /\ pend[o].live
      BY <3>3 DEF Waits
    <3> QED BY <1>1, <3>1, <3>2, <3>3 DEF Inv, OwnersStay
  <2> QED BY <2>1, <2>2, <2>3 DEF NoDanglingPending
<1>2. ASSUME Inv PROVE StopWorkMatches
  <2>1. ASSUME NEW o \in Callers PROVE Cardinality({c \in CPUs : o \in stopq[c]}) <= 1
    <3> DEFINE S == {c \in CPUs : o \in stopq[c]}
    <3>1. \A c, d \in S : c = d
      BY <1>2 DEF Inv, OneWork
    <3> HIDE DEF S
    <3>2. ASSUME S = {} PROVE Cardinality(S) = 0
      BY <3>2, FS_EmptySet
    <3>3. ASSUME S # {} PROVE Cardinality(S) = 1
      <4>1. PICK c : S = {c}
        BY <3>1, <3>3
      <4> QED BY <4>1, FS_Singleton
    <3>4. Cardinality(S) <= 1
      BY <3>2, <3>3
    <3> QED BY <3>4 DEF S
  <2>2. \A c \in CPUs : \A o \in stopq[c] \ {Exec} : migration_pending = o
    <3>1. \A c \in CPUs : \A o \in stopq[c] \ {Exec} : o \in Callers
      BY <1>2 DEF Inv, TypeOK
    <3> QED BY <1>2, <3>1 DEF Inv, OneWork
  <2> QED BY <1>2, <2>1, <2>2 DEF StopWorkMatches, Inv, OneWork, InstalledWaits
<1>3. Inv => AffinityHolds
  BY DEF Inv, Heading, AffinityHolds
<1>4. Inv => PendingSafe
  BY <1>1, <1>2, <1>3 DEF PendingSafe
<1> QED BY AffinityInvariant, <1>4, PTL

\* A task inside migrate_disable() ... migrate_enable() is never moved, by a
\* wake-up, the load balancer, a stopper, migrate_swap() or another caller of
\* set_cpus_allowed_ptr(), and rq->nr_pinned of its CPU counts it throughout.
THEOREM PinnedTaskStays == Spec => PinnedStays
<1>1. Inv /\ [Next]_vars => /\ PinnedCounted'
                            /\ is_migration_disabled /\ migration_disabled' # 0 => cpu' = cpu
  BY NextKeeps, StutterKeeps DEF Keeps, Inv
<1> QED BY AffinityInvariant, <1>1, PTL DEF Spec, PinnedStays
=============================================================================
