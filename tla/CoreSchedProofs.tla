-------------------------- MODULE CoreSchedProofs ---------------------------
(***************************************************************************)
(* The locks of core scheduling are the right ones, and core scheduling    *)
(* stays on while it is used, for any number of CPUs, cores, lockers and   *)
(* users.                                                                  *)
(***************************************************************************)
EXTENDS CoreSched, FiniteSetTheorems, WellFoundedInduction, TLAPS

LockerPcs == {"idle", "enter", "own", "loop", "spin", "check", "locked", "second", "failed", "reorder"}
FlipPcs == {"idle", "key", "sync", "core", "lock", "assert", "key_off"}
HpPcs == {"idle", "deactivate", "starting", "down"}
UserStates == {"out", "slow", "enabling", "add", "in"}
Names == Users \cup {Flipper, None}
LockerStates ==
    [pc : LockerPcs, want : Seq(CPUs), got : SUBSET CPUs, on : CPUs \cup {None}, try : BOOLEAN]
FlipStates ==
    [pc : FlipPcs, by : Names, enabled : BOOLEAN, mask : SUBSET CPUs, todo : SUBSET CPUs, held : SUBSET CPUs]
HpStates == [pc : HpPcs, cpu : CPUs \cup {None}, todo : SUBSET CPUs, held : SUBSET CPUs]

CoreFields ==
    /\ __sched_core_enabled \in BOOLEAN /\ core_enabled \in [CPUs -> BOOLEAN]
    /\ core \in [CPUs -> CPUs] /\ core_task_seq \in [CPUs -> 0 .. SeqMod - 1]
TaskFields == core_tree \subseteq Users /\ cookie \subseteq Users /\ queued \subseteq Users
LockFields ==
    /\ lock \in [CPUs -> Lockers \cup {Flipper, Hp, None}]
    /\ locker \in [Lockers -> LockerStates] /\ readers \subseteq Lockers
    /\ fault \in {"none", "pick_task"}
CpuFields == online \subseteq CPUs /\ present \subseteq CPUs /\ hp \in HpStates
UseFields ==
    /\ sched_core_mutex \in Names
    /\ user \in [Users -> UserStates]
    /\ work \in BOOLEAN /\ worker \in {"idle", "dec", "lock", "disabling"}
    /\ flip \in FlipStates /\ warned \in BOOLEAN

\* A locker waits for, and has, run queues of CPUs that are online.
Placed(r) ==
    /\ r.got \subseteq online /\ \A i \in 1 .. Len(r.want) : r.want[i] \in online
    /\ r.pc = "idle" => r.got = {} /\ r.want = <<>>
    /\ r.pc \in {"enter", "own", "loop", "spin", "check", "second", "failed"} => Len(r.want) >= 1
    /\ r.pc = "reorder" => Len(r.want) = 2
    /\ r.pc \in {"own", "spin", "check"} => r.on \in CPUs
    /\ r.pc = "own" => r.on = r.want[1]
Places == \A l \in Lockers : Placed(locker[l])

\* It holds the locks of the run queues it has, and the one it is to check.
Holds(l, r) ==
    /\ \A c \in r.got : lock[rq_lockp(c)] = l
    /\ r.pc = "check" => lock[r.on] = l /\ \A c \in r.got : rq_lockp(c) # r.on
Held == \A l \in Lockers : Holds(l, locker[l])

AllAre(b) == \A c \in CPUs : core_enabled[c] = b

\* Who chose its lock without core scheduling is waited for before a run queue is switched.
Waited ==
    /\ readers # {} => flip.pc = "sync" /\ flip.enabled
    /\ __sched_core_enabled => \A l \in Lockers : locker[l].pc = "own" => l \in readers

\* How far a switch is.
Switched ==
    /\ ~ __sched_core_enabled => AllAre(FALSE)
    /\ flip.pc = "idle" /\ __sched_core_enabled => AllAre(TRUE)
    /\ flip.pc = "key" => flip.enabled /\ ~ __sched_core_enabled
    /\ flip.pc \notin {"idle", "key"} => __sched_core_enabled
    /\ flip.pc = "sync" /\ flip.enabled => AllAre(FALSE)
    /\ flip.pc \in {"core", "lock"} =>
         flip.mask \subseteq online /\ \A c \in online \ flip.mask : core_enabled[c] = flip.enabled
    /\ flip.pc = "assert" /\ flip.enabled => AllAre(TRUE)
    /\ flip.pc = "key_off" => ~ flip.enabled /\ AllAre(FALSE)

\* A switch locks the run queues of one core after the other, and no CPU comes or goes meanwhile.
FlipLocks ==
    /\ flip.pc = "lock" => flip.mask # {} /\ flip.held \cup flip.todo = cpu_smt_mask(Min(flip.mask))
    /\ flip.pc # "lock" => flip.held = {} /\ flip.todo = {}
    /\ \A c \in flip.held : lock[c] = Flipper
    /\ flip.pc \in {"core", "lock"} => hp.pc = "idle"

\* A CPU comes or goes with the run queues of its core locked.
HpLocks ==
    /\ hp.pc \in {"deactivate", "starting"} => hp.held \cup hp.todo = cpu_smt_mask(hp.cpu)
    /\ hp.pc \notin {"deactivate", "starting"} => hp.held = {} /\ hp.todo = {}
    /\ \A c \in hp.held : lock[c] = Hp
    /\ hp.pc # "idle" => hp.cpu \in CPUs
    /\ hp.pc \in {"deactivate", "down"} => hp.cpu \in online
    /\ hp.pc = "starting" => hp.cpu \notin online
    /\ present = IF hp.pc = "starting" THEN online \cup {hp.cpu} ELSE online

\* A CPU that is offline leads itself; one about to go leads nobody else.
Leaders ==
    /\ OneLeader
    /\ \A c \in CPUs \ online : core[c] = c
    /\ hp.pc = "down" => \A c \in online \ {hp.cpu} : core[c] # hp.cpu

One(P) == IF P THEN 1 ELSE 0
using == {u \in Users : user[u] = "in"}

\* The references: one of each user, or one that is left to the work.
Counted ==
    /\ sched_core_count = Cardinality(using) + One(work) + One(worker \in {"dec", "lock"})
    /\ ~(work /\ worker \in {"dec", "lock"})
    /\ flip.pc # "idle" => sched_core_count = 0
    /\ flip.pc = "idle" /\ sched_core_count > 0 => __sched_core_enabled
    /\ \A u \in Users : user[u] = "add" => flip.pc = "idle" /\ __sched_core_enabled
    /\ sched_core_mutex = None /\ sched_core_count = 0 => ~ __sched_core_enabled

\* Who holds the mutex switches, or has switched.
Mutex ==
    /\ flip.pc = "idle" <=> flip.by = None
    /\ flip.enabled <=> flip.by \in Users
    /\ worker = "disabling" <=> flip.by = Flipper
    /\ worker = "disabling" <=> sched_core_mutex = Flipper
    /\ \A u \in Users :
         /\ user[u] = "enabling" <=> flip.by = u
         /\ user[u] \in {"enabling", "add"} <=> sched_core_mutex = u

\* A task with a cookie has a user with a reference.
Trees == core_tree \subseteq cookie /\ cookie \subseteq using /\ ~ warned

Inv ==
    /\ CoreFields /\ TaskFields /\ LockFields /\ CpuFields /\ UseFields
    /\ Places /\ Held /\ Waited /\ Switched /\ FlipLocks /\ HpLocks /\ Leaders
    /\ Counted /\ Mutex /\ Trees

-----------------------------------------------------------------------------
(* The operators of the model.                                             *)

\* A set of CPUs has a first one.
LEMMA FirstCpu ==
  ASSUME NEW S \in SUBSET Nat, S # {}
  PROVE  Min(S) \in S
<1> DEFINE Less == {pair \in Nat \X Nat : pair[1] < pair[2]}
<1>1. IsWellFoundedOn(Less, Nat)
  BY NatLessThanWellFounded DEF OpToRel
<1> HIDE DEF Less
<1>2. PICK m \in S : \A n \in S : ~ (<<n, m>> \in Less)
  BY <1>1, WFMin
<1>3. \A n \in S : ~ (n < m)
  BY <1>2 DEF Less
<1>4. \A n \in S : m <= n
  BY <1>3
<1> QED BY <1>4 DEF Min

\* core_task_seq wraps.
LEMMA Wraps ==
  ASSUME NEW n \in Nat \ {0}, NEW x \in 0 .. n - 1
  PROVE  (x + 1) % n \in 0 .. n - 1
OBVIOUS

\* The locks of run queues are those of CPUs, and with the key off or a run
\* queue not enabled they are its own.
LEMMA LockOfCpu ==
  ASSUME CoreFields, Switched, NEW c \in CPUs
  PROVE  /\ rq_lockp(c) \in {c, core[c]} /\ rq_lockp(c) \in CPUs
         /\ __rq_lockp(c) = rq_lockp(c)
         /\ ~ __sched_core_enabled \/ ~ core_enabled[c] => rq_lockp(c) = c
BY DEF CoreFields, Switched, AllAre, rq_lockp, __rq_lockp, sched_core_enabled

\* A path that waits for run queues, once the first is taken, waits for the others.
LEMMA Rest ==
  ASSUME NEW s \in Seq(CPUs), Len(s) >= 1, \A i \in 1 .. Len(s) : s[i] \in online
  PROVE  /\ s[1] \in online /\ s[1] \in CPUs
         /\ Tail(s) \in Seq(CPUs) /\ \A i \in 1 .. Len(Tail(s)) : Tail(s)[i] \in online
         /\ Len(s) # 1 => Len(Tail(s)) >= 1
<1>1. 1 \in 1 .. Len(s) /\ Len(s) \in Nat
  OBVIOUS
<1>2. Tail(s) \in Seq(CPUs) /\ Len(Tail(s)) = Len(s) - 1
  OBVIOUS
<1>3. ASSUME NEW i \in 1 .. Len(Tail(s)) PROVE Tail(s)[i] = s[i + 1] /\ i + 1 \in 1 .. Len(s)
  BY <1>1, <1>2
<1>4. s[1] \in CPUs /\ s[1] \in online
  BY <1>1
<1> QED BY <1>1, <1>2, <1>3, <1>4

\* Two run queues to be locked.
LEMMA Two ==
  ASSUME NEW c \in CPUs, NEW d \in CPUs, c \in online, d \in online
  PROVE  <<c, d>> \in Seq(CPUs) /\ Len(<<c, d>>) = 2 /\ \A i \in 1 .. Len(<<c, d>>) : <<c, d>>[i] \in online
OBVIOUS

\* One run queue to be locked.
LEMMA Single ==
  ASSUME NEW c \in CPUs \cap online
  PROVE  <<c>> \in Seq(CPUs) /\ Len(<<c>>) = 1 /\ <<c>>[1] = c /\ \A i \in 1 .. Len(<<c>>) : <<c>>[i] \in online
OBVIOUS

-----------------------------------------------------------------------------
(* Paths that lock run queues.                                             *)

\* What a step of l may do to the locks: take one that is free, give back its own.
OnlyBy(l) == \A c \in CPUs : lock'[c] # lock[c] => lock[c] \in {l, None} /\ lock'[c] \in {l, None}

Others == <<coreVars, taskVars, useVars, cpuVars, flip, warned, fault>>

\* A step of a locker keeps the invariant if it does not touch the locks of
\* others, and has the locks of the run queues it says it has.
LEMMA LockerKeeps ==
  ASSUME Inv, NEW l \in Lockers, NEW r \in LockerStates,
         locker' = [locker EXCEPT ![l] = r],
         lock' \in [CPUs -> Lockers \cup {Flipper, Hp, None}], OnlyBy(l),
         readers' = readers \/ (readers' = readers \ {l} /\ r.pc # "own"),
         r.pc = "own" => ~ __sched_core_enabled,
         Placed(r), \A c \in r.got : lock'[rq_lockp(c)] = l,
         r.pc = "check" => lock'[r.on] = l /\ \A c \in r.got : rq_lockp(c) # r.on,
         UNCHANGED Others
  PROVE  Inv'
<1>1. CoreFields /\ LockFields /\ Places /\ Held /\ Waited /\ Switched /\ CpuFields
  BY DEF Inv
<1>2. UNCHANGED <<__sched_core_enabled, core_enabled, core, core_task_seq, core_tree, cookie,
                  queued,
                  sched_core_count, sched_core_mutex, user, work, worker, online, present, hp, flip,
                  warned, fault>>
  BY DEF Others, coreVars, taskVars, useVars, cpuVars
<1>3. (CoreFields /\ TaskFields /\ CpuFields /\ UseFields)'
  BY <1>2 DEF Inv, CoreFields, TaskFields, CpuFields, UseFields
<1>4. LockFields'
  BY <1>1, <1>2 DEF LockFields
<1>5. Places'
  BY <1>1, <1>2 DEF Places, Placed, LockFields
<1>6. Held'
  <2> SUFFICES ASSUME NEW m \in Lockers PROVE Holds(m, locker[m])'
    BY DEF Held
  <2>1. CASE m = l
    BY <2>1, <1>1, <1>2 DEF Holds, LockFields, rq_lockp, sched_core_enabled
  <2>2. CASE m # l
    <3>1. locker'[m] = locker[m] /\ Holds(m, locker[m]) /\ Placed(locker[m])
      BY <2>2, <1>1 DEF Held, Places, LockFields
    <3>2. \A c \in CPUs : lock[c] = m => lock'[c] = m
      BY <2>2, <1>1, NameAssumption DEF OnlyBy, LockFields
    <3>3. \A c \in locker[m].got : c \in CPUs /\ rq_lockp(c) \in CPUs /\ rq_lockp(c)' = rq_lockp(c)
      BY <3>1, <1>1, <1>2, LockOfCpu DEF Placed, CpuFields, rq_lockp, sched_core_enabled
    <3> QED BY <3>1, <3>2, <3>3 DEF Holds, Placed
  <2> QED BY <2>1, <2>2
<1>7. (Waited /\ Switched)'
  BY <1>1, <1>2 DEF Waited, Switched, AllAre, LockFields
<1>8. (FlipLocks /\ HpLocks)'
  <2>1. \A c \in CPUs : (lock[c] = Flipper => lock'[c] = Flipper) /\ (lock[c] = Hp => lock'[c] = Hp)
    BY <1>1, NameAssumption DEF OnlyBy, LockFields
  <2>2. flip.held \subseteq CPUs /\ hp.held \subseteq CPUs
    BY DEF Inv, UseFields, CpuFields, FlipStates, HpStates
  <2> QED BY <2>1, <2>2, <1>2 DEF Inv, FlipLocks, HpLocks, cpu_smt_mask
<1>9. (Leaders /\ Counted /\ Mutex /\ Trees)'
  BY <1>2 DEF Inv, Leaders, OneLeader, Counted, Mutex, Trees, using
<1> QED BY <1>3, <1>4, <1>5, <1>6, <1>7, <1>8, <1>9 DEF Inv

\* rq_order_less() settles the order, not which two are locked.
LEMMA PairIs ==
  ASSUME NEW c \in CPUs, NEW d \in CPUs, c \in online, d \in online
  PROVE  Pair(c, d) \in Seq(CPUs) /\ Len(Pair(c, d)) = 2 /\ \A i \in 1 .. Len(Pair(c, d)) : Pair(c, d)[i] \in online
BY Two DEF Pair

\* A step of a locker that touches no lock.
LEMMA MoveKeeps ==
  ASSUME Inv, NEW l \in Lockers, NEW r \in LockerStates, Move(l, r), UNCHANGED Others,
         r.pc = "own" => ~ __sched_core_enabled, r.pc # "check",
         Placed(r), \A c \in r.got : lock[rq_lockp(c)] = l
  PROVE  Inv'
<1>1. locker' = [locker EXCEPT ![l] = r] /\ lock' = lock /\ readers' = readers
  BY DEF Move, Set, Keep
<1>2. lock' \in [CPUs -> Lockers \cup {Flipper, Hp, None}] /\ OnlyBy(l)
  BY <1>1 DEF Inv, LockFields, OnlyBy
<1> QED BY <1>1, <1>2, LockerKeeps

\* The state of a locker, and what it has.
LEMMA LockerIs ==
  ASSUME Inv, NEW l \in Lockers
  PROVE  /\ locker[l] \in LockerStates /\ Placed(locker[l]) /\ Holds(l, locker[l])
         /\ locker[l].got \subseteq CPUs /\ online \subseteq CPUs
         /\ NoLocker \in LockerStates
         /\ \A c \in CPUs : rq_lockp(c) \in CPUs /\ __rq_lockp(c) = rq_lockp(c)
BY LockOfCpu DEF Inv, LockFields, CpuFields, Places, Held, LockerStates, LockerPcs, NoLocker

\* A locker that locks one run queue begins.
LEMMA LockOneKeeps ==
  ASSUME Inv, NEW l \in Lockers, LockOne(l), UNCHANGED Others
  PROVE  Inv'
<1>1. PICK c \in online, try \in BOOLEAN : Move(l, [NoLocker EXCEPT !.pc = "enter", !.want = <<c>>, !.try = try])
  BY DEF LockOne
<1>2. c \in CPUs
  BY LockerIs
<1>0. PICK r : r = [NoLocker EXCEPT !.pc = "enter", !.want = <<c>>, !.try = try]
  OBVIOUS
<1>3. /\ r = [pc |-> "enter", want |-> <<c>>, got |-> {}, on |-> None, try |-> try]
      /\ <<c>> \in Seq(CPUs) /\ Len(<<c>>) = 1 /\ \A i \in 1 .. Len(<<c>>) : <<c>>[i] \in online
  BY <1>0, <1>2, Single DEF NoLocker
<1>4. r \in LockerStates
  BY <1>3 DEF LockerStates, LockerPcs
<1>5. Placed(r)
  BY <1>3 DEF Placed
<1>6. \A d \in r.got : lock[rq_lockp(d)] = l
  BY <1>3
<1> QED BY <1>0, <1>1, <1>3, <1>4, <1>5, <1>6, MoveKeeps

\* A locker that locks two begins.
LEMMA DoubleLockKeeps ==
  ASSUME Inv, NEW l \in Lockers, double_rq_lock(l), UNCHANGED Others
  PROVE  Inv'
<1>1. PICK c \in online, d \in online : Move(l, [NoLocker EXCEPT !.pc = "enter", !.want = Pair(c, d)])
  BY DEF double_rq_lock
<1>2. PICK s : s = Pair(c, d)
  OBVIOUS
<1>0. PICK r : r = [NoLocker EXCEPT !.pc = "enter", !.want = s]
  OBVIOUS
<1>3. c \in CPUs /\ d \in CPUs
  BY LockerIs
<1>4. /\ r = [pc |-> "enter", want |-> s, got |-> {}, on |-> None, try |-> FALSE]
      /\ s \in Seq(CPUs) /\ Len(s) = 2 /\ \A i \in 1 .. Len(s) : s[i] \in online
  BY <1>0, <1>2, <1>3, PairIs DEF NoLocker
<1>5. r \in LockerStates
  BY <1>4 DEF LockerStates, LockerPcs
<1>6. Placed(r)
  <2>1. r.got = {} /\ r.want = s /\ r.pc = "enter" /\ Len(s) >= 1
    BY <1>4
  <2> QED BY <1>4, <2>1 DEF Placed
<1>7. \A e \in r.got : lock[rq_lockp(e)] = l
  BY <1>4
<1> QED BY <1>0, <1>1, <1>2, <1>4, <1>5, <1>6, <1>7, MoveKeeps

\* A step that leaves what a locker waits for and has, and changes where it stands.
LEMMA StandsKeeps ==
  ASSUME Inv, NEW l \in Lockers, NEW r \in LockerStates, Move(l, r), UNCHANGED Others,
         r.want = locker[l].want, r.got = locker[l].got, Len(r.want) >= 1,
         r.pc \in {"enter", "own", "loop", "spin", "failed"},
         r.pc = "own" => ~ __sched_core_enabled /\ r.on = r.want[1],
         r.pc = "spin" => r.on \in CPUs
  PROVE  Inv'
<1>1. Placed(locker[l]) /\ Holds(l, locker[l]) /\ locker[l] \in LockerStates
  BY LockerIs
<1>2. Placed(r)
  <2>1. r.want[1] \in CPUs
    BY DEF LockerStates
  <2> QED BY <1>1, <2>1 DEF Placed
<1>3. \A c \in r.got : lock[rq_lockp(c)] = l
  BY <1>1 DEF Holds
<1> QED BY <1>2, <1>3, MoveKeeps

\* raw_spin_rq_lock_nested() looks at the key.
LEMMA EnterKeeps ==
  ASSUME Inv, NEW l \in Lockers, Enter(l), UNCHANGED Others
  PROVE  Inv'
<1>1. /\ locker[l] \in LockerStates /\ locker[l].pc = "enter" /\ Placed(locker[l])
      /\ locker[l].want \in Seq(CPUs)
  BY LockerIs DEF Enter, LockerStates
<1>2. Len(locker[l].want) >= 1 /\ locker[l].want[1] \in CPUs
  BY <1>1 DEF Placed
<1>3. CASE __sched_core_enabled
  <2>1. PICK r : r = [locker[l] EXCEPT !.pc = "loop"]
    OBVIOUS
  <2>2. Move(l, r)
    BY <1>3, <2>1 DEF Enter
  <2>3. r \in LockerStates /\ r.want = locker[l].want /\ r.got = locker[l].got /\ r.pc = "loop"
    BY <1>1, <2>1 DEF LockerStates, LockerPcs
  <2> QED BY <1>2, <2>2, <2>3, StandsKeeps
<1>4. CASE ~ __sched_core_enabled
  <2>1. PICK r : r = [locker[l] EXCEPT !.pc = "own", !.on = locker[l].want[1]]
    OBVIOUS
  <2>2. Move(l, r)
    BY <1>4, <2>1 DEF Enter
  <2>3. /\ r \in LockerStates /\ r.want = locker[l].want /\ r.got = locker[l].got /\ r.pc = "own"
        /\ r.on = r.want[1]
    BY <1>1, <1>2, <2>1 DEF LockerStates, LockerPcs
  <2> QED BY <1>2, <1>4, <2>2, <2>3, StandsKeeps
<1> QED BY <1>3, <1>4

\* It chooses a lock.
LEMMA LoopKeeps ==
  ASSUME Inv, NEW l \in Lockers, Loop(l), UNCHANGED Others
  PROVE  Inv'
<1>1. /\ locker[l] \in LockerStates /\ locker[l].pc = "loop" /\ Placed(locker[l])
      /\ locker[l].want \in Seq(CPUs)
  BY LockerIs DEF Loop, LockerStates
<1>2. Len(locker[l].want) >= 1 /\ locker[l].want[1] \in CPUs
  BY <1>1 DEF Placed
<1>3. PICK x : x = __rq_lockp(locker[l].want[1])
  OBVIOUS
<1>4. x \in CPUs
  BY <1>2, <1>3, LockerIs
<1>5. PICK r : r = [locker[l] EXCEPT !.pc = "spin", !.on = x]
  OBVIOUS
<1>6. Move(l, r)
  BY <1>3, <1>5 DEF Loop
<1>7. /\ r \in LockerStates /\ r.want = locker[l].want /\ r.got = locker[l].got /\ r.pc = "spin"
      /\ r.on = x
  BY <1>1, <1>4, <1>5 DEF LockerStates, LockerPcs
<1> QED BY <1>2, <1>4, <1>6, <1>7, StandsKeeps

\* The first run queue of want is locked: the others are waited for.
LEMMA LockedIs ==
  ASSUME Inv, NEW l \in Lockers, Len(locker[l].want) >= 1
  PROVE  LET r == Locked(locker[l])
         IN  /\ r \in LockerStates /\ Placed(r) /\ r.pc \in {"locked", "second"}
             /\ r.got = locker[l].got \cup {locker[l].want[1]}
             /\ locker[l].want[1] \in online /\ locker[l].want[1] \in CPUs
<1>1. locker[l] \in LockerStates /\ Placed(locker[l])
  BY LockerIs
<1>2. PICK s \in Seq(CPUs) : s = locker[l].want
  BY <1>1 DEF LockerStates
<1>3. Len(s) >= 1 /\ \A i \in 1 .. Len(s) : s[i] \in online
  BY <1>1, <1>2 DEF Placed
<1>4. PICK w \in Seq(CPUs) : w = Tail(s)
  BY <1>3, Rest
<1>5. /\ s[1] \in online /\ s[1] \in CPUs
      /\ Len(s) # 1 => Len(w) >= 1
      /\ \A i \in 1 .. Len(w) : w[i] \in online
  BY <1>3, <1>4, Rest
<1>6. PICK r : r = Locked(locker[l])
  OBVIOUS
<1>7. r = [pc |-> IF Len(s) = 1 THEN "locked" ELSE "second", want |-> w, got |-> locker[l].got \cup {s[1]},
           on |-> None, try |-> FALSE]
  BY <1>1, <1>2, <1>4, <1>6 DEF Locked, LockerStates
<1>8. r \in LockerStates
  BY <1>1, <1>5, <1>7 DEF LockerStates, LockerPcs
<1>9. Placed(r)
  BY <1>1, <1>5, <1>7 DEF Placed
<1> QED BY <1>2, <1>5, <1>6, <1>7, <1>8, <1>9

\* A lock that is free is taken.
LEMMA TakeKeeps ==
  ASSUME Inv, NEW l \in Lockers, NEW x \in CPUs, lock[x] = None,
         lock' = [lock EXCEPT ![x] = l]
  PROVE  /\ lock' \in [CPUs -> Lockers \cup {Flipper, Hp, None}] /\ OnlyBy(l)
         /\ lock'[x] = l
         /\ \A c \in locker[l].got : lock'[rq_lockp(c)] = l /\ rq_lockp(c) # x
<1>1. Holds(l, locker[l]) /\ LockFields /\ \A c \in locker[l].got : rq_lockp(c) \in CPUs
  BY LockerIs DEF Inv
<1>2. l # None
  BY NameAssumption
<1>3. \A c \in locker[l].got : lock[rq_lockp(c)] = l
  BY <1>1 DEF Holds
<1>4. lock \in [CPUs -> Lockers \cup {Flipper, Hp, None}]
  BY <1>1 DEF LockFields
<1> QED BY <1>1, <1>2, <1>3, <1>4 DEF OnlyBy

\* A lock of its own is given back; the other ones stay.
LEMMA GiveKeeps ==
  ASSUME Inv, NEW l \in Lockers, NEW x \in CPUs, lock[x] = l, raw_spin_unlock(l, x)
  PROVE  /\ lock' \in [CPUs -> Lockers \cup {Flipper, Hp, None}] /\ OnlyBy(l)
         /\ \A c \in locker[l].got : rq_lockp(c) # x => lock'[rq_lockp(c)] = l
         /\ fault' = fault
<1>1. Holds(l, locker[l]) /\ LockFields /\ \A c \in locker[l].got : rq_lockp(c) \in CPUs
  BY LockerIs DEF Inv
<1>2. lock' = [lock EXCEPT ![x] = None] /\ fault' = fault
  BY DEF raw_spin_unlock
<1>3. \A c \in locker[l].got : lock[rq_lockp(c)] = l
  BY <1>1 DEF Holds
<1>4. lock \in [CPUs -> Lockers \cup {Flipper, Hp, None}]
  BY <1>1 DEF LockFields
<1> QED BY <1>1, <1>2, <1>3, <1>4 DEF OnlyBy

\* A locker that has nothing any more is in its first state.
LEMMA NothingHeld ==
  ASSUME Inv
  PROVE  /\ NoLocker \in LockerStates /\ Placed(NoLocker)
         /\ NoLocker.pc = "idle" /\ NoLocker.got = {}
BY LockerIs DEF NoLocker, Placed, LockerStates, LockerPcs

\* raw_spin_lock() and a successful raw_spin_trylock().
LEMMA SpinLockKeeps ==
  ASSUME Inv, NEW l \in Lockers, raw_spin_lock(l), UNCHANGED <<coreVars, taskVars,
                                                                            useVars, cpuVars,
                                                                            flip, warned>>
  PROVE  Inv'
<1>1. /\ locker[l] \in LockerStates /\ locker[l].pc \in {"own", "spin"} /\ Placed(locker[l])
      /\ lock[locker[l].on] = None
  BY LockerIs DEF raw_spin_lock
<1>2. PICK x \in CPUs : x = locker[l].on
  BY <1>1 DEF Placed
<1>3. lock' = [lock EXCEPT ![x] = l] /\ readers' = readers /\ UNCHANGED Others
  BY <1>2 DEF raw_spin_lock, Others
<1>4. /\ lock' \in [CPUs -> Lockers \cup {Flipper, Hp, None}] /\ OnlyBy(l)
      /\ lock'[x] = l
      /\ \A c \in locker[l].got : lock'[rq_lockp(c)] = l /\ rq_lockp(c) # x
  BY <1>1, <1>2, <1>3, TakeKeeps
<1>5. Len(locker[l].want) >= 1
  BY <1>1 DEF Placed
<1>6. CASE locker[l].pc = "own"
  <2>1. x = locker[l].want[1] /\ rq_lockp(x) = x
    <3>1. __sched_core_enabled => readers # {} /\ AllAre(FALSE)
      BY <1>6 DEF Inv, Waited, Switched
    <3>2. ~ __sched_core_enabled \/ ~ core_enabled[x]
      BY <3>1 DEF AllAre
    <3> QED BY <1>1, <1>2, <1>6, <3>2, LockOfCpu DEF Placed, Inv
  <2>2. PICK r : r = Locked(locker[l])
    OBVIOUS
  <2>3. /\ r \in LockerStates /\ Placed(r) /\ r.pc \in {"locked", "second"}
        /\ r.got = locker[l].got \cup {x}
    BY <1>5, <2>1, <2>2, LockedIs
  <2>4. locker' = [locker EXCEPT ![l] = r]
    BY <1>6, <2>2 DEF raw_spin_lock, Set
  <2>5. \A c \in r.got : lock'[rq_lockp(c)] = l
    BY <1>4, <2>1, <2>3
  <2> QED BY <1>3, <1>4, <2>3, <2>4, <2>5, LockerKeeps
<1>7. CASE locker[l].pc = "spin"
  <2>1. PICK r : r = [locker[l] EXCEPT !.pc = "check"]
    OBVIOUS
  <2>2. /\ r \in LockerStates /\ r.pc = "check" /\ r.got = locker[l].got /\ r.want = locker[l].want
        /\ r.on = x
    BY <1>1, <1>2, <2>1 DEF LockerStates, LockerPcs
  <2>3. locker' = [locker EXCEPT ![l] = r]
    BY <1>7, <2>1 DEF raw_spin_lock, Set
  <2>4. Placed(r)
    BY <1>1, <1>7, <2>2 DEF Placed
  <2>5. /\ \A c \in r.got : lock'[rq_lockp(c)] = l
        /\ lock'[r.on] = l /\ \A c \in r.got : rq_lockp(c) # r.on
    BY <1>4, <2>2
  <2> QED BY <1>3, <1>4, <2>2, <2>3, <2>4, <2>5, LockerKeeps
<1> QED BY <1>1, <1>6, <1>7

\* raw_spin_trylock() fails.
LEMMA TrylockFailsKeeps ==
  ASSUME Inv, NEW l \in Lockers, raw_spin_trylock_fails(l),
         UNCHANGED <<coreVars, taskVars, useVars, cpuVars, flip, warned>>
  PROVE  Inv'
<1>1. /\ locker[l] \in LockerStates /\ locker[l].pc \in {"own", "spin"} /\ Placed(locker[l])
      /\ Holds(l, locker[l])
  BY LockerIs DEF raw_spin_trylock_fails
<1>2. lock' = lock /\ UNCHANGED Others
  BY DEF raw_spin_trylock_fails, Others, Keep, Move
<1>3. lock' \in [CPUs -> Lockers \cup {Flipper, Hp, None}] /\ OnlyBy(l)
  BY <1>2 DEF Inv, LockFields, OnlyBy
<1>4. CASE locker[l].got = {}
  <2>1. locker' = [locker EXCEPT ![l] = NoLocker] /\ readers' = readers \ {l}
    BY <1>4 DEF raw_spin_trylock_fails, Leave, Set
  <2> QED BY <1>2, <1>3, <2>1, NothingHeld, LockerKeeps
<1>5. CASE locker[l].got # {}
  <2>1. PICK r : r = [locker[l] EXCEPT !.pc = "failed", !.on = None, !.try = FALSE]
    OBVIOUS
  <2>2. /\ r \in LockerStates /\ r.pc = "failed" /\ r.got = locker[l].got /\ r.want = locker[l].want
    BY <1>1, <2>1 DEF LockerStates, LockerPcs
  <2>3. Move(l, r)
    BY <1>5, <2>1 DEF raw_spin_trylock_fails
  <2>4. Len(r.want) >= 1
    BY <1>1, <2>2 DEF Placed
  <2> QED BY <1>2, <2>2, <2>3, <2>4, StandsKeeps
<1> QED BY <1>4, <1>5

\* The lock is the right one, or is given back.
LEMMA CheckKeeps ==
  ASSUME Inv, NEW l \in Lockers, Check(l), UNCHANGED <<coreVars, taskVars, useVars,
                                                                    cpuVars, flip, warned>>
  PROVE  Inv'
<1>1. /\ locker[l] \in LockerStates /\ locker[l].pc = "check" /\ Placed(locker[l])
      /\ Holds(l, locker[l])
  BY LockerIs DEF Check
<1>2. PICK x \in CPUs : x = locker[l].on
  BY <1>1 DEF Placed
<1>3. /\ Len(locker[l].want) >= 1 /\ readers' = readers /\ lock[x] = l
      /\ \A c \in locker[l].got : rq_lockp(c) # x /\ lock[rq_lockp(c)] = l
  BY <1>1, <1>2 DEF Placed, Check, Holds
<1>4. CASE x = __rq_lockp(locker[l].want[1])
  <2>1. PICK r : r = Locked(locker[l])
    OBVIOUS
  <2>2. /\ r \in LockerStates /\ Placed(r) /\ r.pc \in {"locked", "second"}
        /\ r.got = locker[l].got \cup {locker[l].want[1]} /\ locker[l].want[1] \in CPUs
    BY <1>3, <2>1, LockedIs
  <2>3. \A c \in r.got : lock[rq_lockp(c)] = l
    BY <1>3, <1>4, <2>2, LockerIs
  <2>4. Move(l, r) /\ UNCHANGED Others
    BY <1>2, <1>4, <2>1 DEF Check, Move, Keep, Others
  <2> QED BY <2>2, <2>3, <2>4, MoveKeeps
<1>5. CASE x # __rq_lockp(locker[l].want[1])
  <2>1. PICK r : r = [locker[l] EXCEPT !.pc = "loop", !.on = None]
    OBVIOUS
  <2>2. /\ r \in LockerStates /\ r.pc = "loop" /\ r.got = locker[l].got /\ r.want = locker[l].want
    BY <1>1, <2>1 DEF LockerStates, LockerPcs
  <2>3. locker' = [locker EXCEPT ![l] = r] /\ raw_spin_unlock(l, x)
    BY <1>2, <1>5, <2>1 DEF Check, Set
  <2>4. /\ lock' \in [CPUs -> Lockers \cup {Flipper, Hp, None}] /\ OnlyBy(l)
        /\ \A c \in locker[l].got : rq_lockp(c) # x => lock'[rq_lockp(c)] = l
        /\ fault' = fault
    BY <1>3, <2>3, GiveKeeps
  <2>5. Placed(r)
    BY <1>1, <2>2 DEF Placed
  <2>6. UNCHANGED Others
    BY <2>4 DEF Others
  <2>7. \A c \in r.got : lock'[rq_lockp(c)] = l
    BY <1>3, <2>2, <2>4
  <2> QED BY <1>3, <2>2, <2>3, <2>4, <2>5, <2>6, <2>7, LockerKeeps
<1> QED BY <1>4, <1>5

\* double_rq_lock() has the first run queue, and goes on to the second.
LEMMA SecondKeeps ==
  ASSUME Inv, NEW l \in Lockers, Second(l), UNCHANGED <<coreVars, taskVars, useVars,
                                                                     cpuVars, flip, warned>>
  PROVE  Inv'
<1>1. PICK c \in locker[l].got :
         /\ locker[l].pc = "second"
         /\ Move(l, IF __rq_lockp(c) = __rq_lockp(locker[l].want[1]) THEN Locked(locker[l])
                    ELSE [locker[l] EXCEPT !.pc = "enter"])
  BY DEF Second
<1>2. /\ locker[l] \in LockerStates /\ Placed(locker[l]) /\ Holds(l, locker[l]) /\ c \in CPUs
      /\ UNCHANGED Others
  BY <1>1, LockerIs DEF Move, Keep, Others
<1>3. Len(locker[l].want) >= 1
  BY <1>1, <1>2 DEF Placed
<1>4. CASE __rq_lockp(c) = __rq_lockp(locker[l].want[1])
  <2>1. PICK r : r = Locked(locker[l])
    OBVIOUS
  <2>2. /\ r \in LockerStates /\ Placed(r) /\ r.pc \in {"locked", "second"}
        /\ r.got = locker[l].got \cup {locker[l].want[1]} /\ locker[l].want[1] \in CPUs
    BY <1>3, <2>1, LockedIs
  <2>3. \A d \in r.got : lock[rq_lockp(d)] = l
    BY <1>2, <1>4, <2>2, LockerIs DEF Holds
  <2> QED BY <1>1, <1>2, <1>4, <2>1, <2>2, <2>3, MoveKeeps
<1>5. CASE __rq_lockp(c) # __rq_lockp(locker[l].want[1])
  <2>1. PICK r : r = [locker[l] EXCEPT !.pc = "enter"]
    OBVIOUS
  <2>2. /\ r \in LockerStates /\ r.pc = "enter" /\ r.got = locker[l].got /\ r.want = locker[l].want
    BY <1>2, <2>1 DEF LockerStates, LockerPcs
  <2> QED BY <1>1, <1>2, <1>3, <1>5, <2>1, <2>2, StandsKeeps
<1> QED BY <1>4, <1>5

\* The lock of the only run queue it has is given back.
LEMMA UnlockIs ==
  ASSUME Inv, NEW l \in Lockers, NEW c \in locker[l].got, raw_spin_unlock(l, rq_lockp(c))
  PROVE  /\ lock' \in [CPUs -> Lockers \cup {Flipper, Hp, None}] /\ OnlyBy(l)
         /\ \A d \in locker[l].got : rq_lockp(d) # rq_lockp(c) => lock'[rq_lockp(d)] = l
         /\ fault' = fault
<1>1. rq_lockp(c) \in CPUs /\ lock[rq_lockp(c)] = l
  BY LockerIs DEF Holds
<1> QED BY <1>1, GiveKeeps

\* raw_spin_rq_unlock() unlocks the lock that was locked.
LEMMA UnlockKeeps ==
  ASSUME Inv, NEW l \in Lockers, raw_spin_rq_unlock(l),
         UNCHANGED <<coreVars, taskVars, useVars, cpuVars, flip, warned>>
  PROVE  Inv'
<1>1. PICK c \in locker[l].got : raw_spin_unlock(l, rq_lockp(c)) /\ Leave(l)
  BY DEF raw_spin_rq_unlock
<1>2. lock' \in [CPUs -> Lockers \cup {Flipper, Hp, None}] /\ OnlyBy(l) /\ fault' = fault
  BY <1>1, UnlockIs
<1>3. locker' = [locker EXCEPT ![l] = NoLocker] /\ readers' = readers \ {l} /\ UNCHANGED Others
  BY <1>1, <1>2 DEF Leave, Set, Others
<1> QED BY <1>2, <1>3, NothingHeld, LockerKeeps

\* One of two run queues is unlocked, the lock only if the other one does not share it.
LEMMA DoubleUnlockKeeps ==
  ASSUME Inv, NEW l \in Lockers, double_unlock(l),
         UNCHANGED <<coreVars, taskVars, useVars, cpuVars, flip, warned>>
  PROVE  Inv'
<1>1. PICK c \in locker[l].got, d \in locker[l].got :
         /\ locker[l].pc = "locked" /\ readers' = readers
         /\ IF __rq_lockp(c) # __rq_lockp(d) THEN raw_spin_unlock(l, rq_lockp(d)) ELSE Keep
         /\ Set(l, [locker[l] EXCEPT !.got = {c}])
  BY DEF double_unlock
<1>2. /\ locker[l] \in LockerStates /\ Placed(locker[l]) /\ Holds(l, locker[l]) /\ c \in CPUs
      /\ d \in CPUs
      /\ __rq_lockp(c) = rq_lockp(c) /\ __rq_lockp(d) = rq_lockp(d)
  BY LockerIs
<1>3. PICK r : r = [locker[l] EXCEPT !.got = {c}]
  OBVIOUS
<1>4. r \in LockerStates /\ r.pc = "locked" /\ r.got = {c} /\ r.want = locker[l].want
  BY <1>1, <1>2, <1>3 DEF LockerStates
<1>5. Placed(r)
  BY <1>1, <1>2, <1>4 DEF Placed
<1>6. CASE rq_lockp(c) # rq_lockp(d)
  <2>1. /\ lock' \in [CPUs -> Lockers \cup {Flipper, Hp, None}] /\ OnlyBy(l)
        /\ lock'[rq_lockp(c)] = l /\ fault' = fault
    BY <1>1, <1>2, <1>6, UnlockIs
  <2>2. UNCHANGED Others /\ locker' = [locker EXCEPT ![l] = r]
    BY <1>1, <1>3, <2>1 DEF Others, Set
  <2> QED BY <1>1, <1>4, <1>5, <2>1, <2>2, LockerKeeps
<1>7. CASE rq_lockp(c) = rq_lockp(d)
  <2>1. Move(l, r) /\ UNCHANGED Others
    BY <1>1, <1>2, <1>3, <1>7 DEF Move, Keep, Others
  <2>2. lock[rq_lockp(c)] = l
    BY <1>2 DEF Holds
  <2> QED BY <1>4, <1>5, <2>1, <2>2, MoveKeeps
<1> QED BY <1>6, <1>7

\* One run queue is given back, to lock both in order.
LEMMA GiveBackKeeps ==
  ASSUME Inv, NEW l \in Lockers, NEW c \in locker[l].got, NEW d \in CPUs, d \in online,
         GiveBack(l, c, d), UNCHANGED <<coreVars, taskVars, useVars, cpuVars, flip, warned>>
  PROVE  Inv'
<1>1. c \in CPUs /\ c \in online
  BY LockerIs DEF Placed
<1>2. lock' \in [CPUs -> Lockers \cup {Flipper, Hp, None}] /\ OnlyBy(l) /\ fault' = fault
  BY UnlockIs DEF GiveBack
<1>3. PICK s : s = <<c, d>>
  OBVIOUS
<1>4. s \in Seq(CPUs) /\ Len(s) = 2 /\ \A i \in 1 .. Len(s) : s[i] \in online
  BY <1>1, <1>3, Two
<1>5. PICK r : r = [NoLocker EXCEPT !.pc = "reorder", !.want = s]
  OBVIOUS
<1>6. r = [pc |-> "reorder", want |-> s, got |-> {}, on |-> None, try |-> FALSE]
  BY <1>5 DEF NoLocker
<1>7. r \in LockerStates
  BY <1>4, <1>6 DEF LockerStates, LockerPcs
<1>8. Placed(r) /\ r.pc = "reorder" /\ r.got = {}
  <2>1. r.pc = "reorder" /\ r.got = {} /\ r.want = s /\ Len(s) >= 1
    BY <1>4, <1>6
  <2> QED BY <1>4, <2>1 DEF Placed
<1>9. locker' = [locker EXCEPT ![l] = r] /\ readers' = readers /\ UNCHANGED Others
  BY <1>2, <1>3, <1>5 DEF GiveBack, Set, Others
<1> QED BY <1>2, <1>7, <1>8, <1>9, LockerKeeps

\* double_lock_balance() wants a second run queue.
LEMMA BalanceKeeps ==
  ASSUME Inv, NEW l \in Lockers, double_lock_balance(l),
         UNCHANGED <<coreVars, taskVars, useVars, cpuVars, flip, warned>>
  PROVE  Inv'
<1>1. PICK c \in locker[l].got, d \in online :
         /\ locker[l].pc = "locked" /\ locker[l].got = {c}
         /\ \/ GiveBack(l, c, d)
            \/ Move(l, IF __rq_lockp(c) = __rq_lockp(d) THEN [locker[l] EXCEPT !.got = {c, d}]
                       ELSE [locker[l] EXCEPT !.pc = "enter", !.want = <<d>>, !.try = TRUE])
  BY DEF double_lock_balance
<1>2. /\ locker[l] \in LockerStates /\ Placed(locker[l]) /\ Holds(l, locker[l])
      /\ c \in CPUs /\ d \in CPUs /\ c \in online
      /\ __rq_lockp(c) = rq_lockp(c) /\ __rq_lockp(d) = rq_lockp(d)
  BY LockerIs DEF Placed
<1>3. lock[rq_lockp(c)] = l
  BY <1>2 DEF Holds
<1>4. CASE GiveBack(l, c, d)
  BY <1>2, <1>4, GiveBackKeeps
<1>5. CASE ~ GiveBack(l, c, d) /\ rq_lockp(c) = rq_lockp(d)
  <2>1. PICK r : r = [locker[l] EXCEPT !.got = {c, d}]
    OBVIOUS
  <2>2. r \in LockerStates /\ r.pc = "locked" /\ r.got = {c, d} /\ r.want = locker[l].want
    BY <1>1, <1>2, <2>1 DEF LockerStates
  <2>3. Placed(r)
    BY <1>1, <1>2, <2>2 DEF Placed
  <2>4. Move(l, r) /\ UNCHANGED Others
    BY <1>1, <1>2, <1>5, <2>1 DEF Move, Keep, Others
  <2> QED BY <1>3, <1>5, <2>2, <2>3, <2>4, MoveKeeps
<1>6. CASE ~ GiveBack(l, c, d) /\ rq_lockp(c) # rq_lockp(d)
  <2>1. PICK s : s = <<d>>
    OBVIOUS
  <2>2. s \in Seq(CPUs) /\ Len(s) = 1 /\ \A i \in 1 .. Len(s) : s[i] \in online
    BY <1>2, <2>1, Single
  <2>3. PICK r : r = [locker[l] EXCEPT !.pc = "enter", !.want = s, !.try = TRUE]
    OBVIOUS
  <2>4. r \in LockerStates /\ r.pc = "enter" /\ r.got = {c} /\ r.want = s
    BY <1>1, <1>2, <2>2, <2>3 DEF LockerStates, LockerPcs
  <2>5. Placed(r)
    <3>1. Len(s) >= 1
      BY <2>2
    <3> QED BY <1>2, <2>2, <2>4, <3>1 DEF Placed
  <2>6. Move(l, r) /\ UNCHANGED Others
    BY <1>1, <1>2, <1>6, <2>1, <2>3 DEF Move, Keep, Others
  <2> QED BY <1>3, <2>4, <2>5, <2>6, MoveKeeps
<1> QED BY <1>4, <1>5, <1>6

\* The trylock of double_lock_balance() has failed.
LEMMA TryFailedKeeps ==
  ASSUME Inv, NEW l \in Lockers, TryFailed(l), UNCHANGED <<coreVars, taskVars,
                                                                        useVars, cpuVars, flip,
                                                                        warned>>
  PROVE  Inv'
<1>1. PICK c \in locker[l].got :
         /\ locker[l].pc = "failed"
         /\ \/ Move(l, [locker[l] EXCEPT !.pc = "enter"])
            \/ GiveBack(l, c, locker[l].want[1])
  BY DEF TryFailed
<1>2. locker[l] \in LockerStates /\ Placed(locker[l]) /\ locker[l].want \in Seq(CPUs)
  BY LockerIs DEF LockerStates
<1>3. Len(locker[l].want) >= 1 /\ locker[l].want[1] \in CPUs /\ locker[l].want[1] \in online
  BY <1>1, <1>2 DEF Placed
<1>4. CASE GiveBack(l, c, locker[l].want[1])
  BY <1>3, <1>4, GiveBackKeeps
<1>5. CASE Move(l, [locker[l] EXCEPT !.pc = "enter"])
  <2>1. PICK r : r = [locker[l] EXCEPT !.pc = "enter"]
    OBVIOUS
  <2>2. r \in LockerStates /\ r.pc = "enter" /\ r.got = locker[l].got /\ r.want = locker[l].want
    BY <1>2, <2>1 DEF LockerStates, LockerPcs
  <2>3. Move(l, r) /\ UNCHANGED Others
    BY <1>5, <2>1 DEF Move, Keep, Others
  <2> QED BY <1>3, <2>2, <2>3, StandsKeeps
<1> QED BY <1>1, <1>4, <1>5

\* The order is settled again.
LEMMA ReorderKeeps ==
  ASSUME Inv, NEW l \in Lockers, Reorder(l), UNCHANGED <<coreVars, taskVars, useVars,
                                                                      cpuVars, flip, warned>>
  PROVE  Inv'
<1>1. /\ locker[l].pc = "reorder" /\ locker[l] \in LockerStates /\ Placed(locker[l])
      /\ Holds(l, locker[l])
  BY LockerIs DEF Reorder
<1>2. PICK s \in Seq(CPUs) : s = locker[l].want
  BY <1>1 DEF LockerStates
<1>3. /\ s[1] \in CPUs /\ s[2] \in CPUs /\ s[1] \in online /\ s[2] \in online
  BY <1>1, <1>2 DEF Placed
<1>4. PICK w : w = Pair(s[1], s[2])
  OBVIOUS
<1>5. w \in Seq(CPUs) /\ Len(w) = 2 /\ \A i \in 1 .. Len(w) : w[i] \in online
  BY <1>3, <1>4, PairIs
<1>6. PICK r : r = [locker[l] EXCEPT !.pc = "enter", !.want = w]
  OBVIOUS
<1>7. r \in LockerStates /\ r.pc = "enter" /\ r.got = locker[l].got /\ r.want = w
  BY <1>1, <1>5, <1>6 DEF LockerStates, LockerPcs
<1>8. Placed(r)
  <2>1. Len(w) >= 1
    BY <1>5
  <2> QED BY <1>1, <1>5, <1>7, <2>1 DEF Placed
<1>9. Move(l, r) /\ UNCHANGED Others
  <2>1. [locker[l] EXCEPT !.pc = "enter", !.want = Pair(@[1], @[2])] = r
    BY <1>1, <1>2, <1>4, <1>6 DEF LockerStates
  <2> QED BY <2>1 DEF Reorder, Move, Keep, Others
<1>10. \A c \in r.got : lock[rq_lockp(c)] = l
  BY <1>1, <1>7 DEF Holds
<1> QED BY <1>7, <1>8, <1>9, <1>10, MoveKeeps

\* Every step of a locker.
LEMMA LockStepKeeps ==
  ASSUME Inv, NEW l \in Lockers, LockStep(l)
  PROVE  Inv'
<1>1. UNCHANGED <<coreVars, taskVars, useVars, cpuVars, flip, warned>>
  BY DEF LockStep
<1>2. CASE LockOne(l)
  BY <1>1, <1>2, LockOneKeeps DEF LockOne, Move, Keep, Others
<1>3. CASE double_rq_lock(l)
  BY <1>1, <1>3, DoubleLockKeeps DEF double_rq_lock, Move, Keep, Others
<1>4. CASE Enter(l)
  BY <1>1, <1>4, EnterKeeps DEF Enter, Move, Keep, Others
<1>5. CASE Loop(l)
  BY <1>1, <1>5, LoopKeeps DEF Loop, Move, Keep, Others
<1> QED BY <1>1, <1>2, <1>3, <1>4, <1>5, SpinLockKeeps, TrylockFailsKeeps, CheckKeeps,
           SecondKeeps, UnlockKeeps,
           DoubleUnlockKeeps, BalanceKeeps, TryFailedKeeps, ReorderKeeps DEF LockStep

-----------------------------------------------------------------------------
(* Under the lock of a run queue.                                          *)

\* A change of a queue keeps the invariant if the tasks in the trees have cookies of users.
LEMMA QueueKeeps ==
  ASSUME Inv, core_task_seq' \in [CPUs -> 0 .. SeqMod - 1], TaskFields',
         fault' \in {"none", "pick_task"}, core_tree' \subseteq cookie', cookie' \subseteq using,
         UNCHANGED <<__sched_core_enabled, core_enabled, core, useVars, lock, cpuVars, locker,
                     readers, flip, warned>>
  PROVE  Inv'
<1>1. UNCHANGED <<__sched_core_enabled, core_enabled, core, sched_core_count, sched_core_mutex,
                  user, work,
                  worker, lock, online, present, hp, locker, readers, flip, warned>>
  BY DEF useVars, cpuVars
<1>2. (CoreFields /\ TaskFields /\ LockFields /\ CpuFields /\ UseFields)'
  BY <1>1 DEF Inv, CoreFields, LockFields, CpuFields, UseFields
<1>3. (Places /\ Waited /\ Switched /\ FlipLocks /\ HpLocks)'
  BY <1>1 DEF Inv, Places, Placed, Waited, Switched, AllAre, FlipLocks, HpLocks, cpu_smt_mask
<1>4. Held'
  BY <1>1 DEF Inv, Held, Holds, rq_lockp, sched_core_enabled
<1>5. (Leaders /\ Counted /\ Mutex /\ Trees)'
  BY <1>1 DEF Inv, Leaders, OneLeader, Counted, Mutex, Trees, using
<1> QED BY <1>2, <1>3, <1>4, <1>5 DEF Inv

\* The sequence number stays one.
LEMMA SeqIs ==
  ASSUME Inv, NEW c \in CPUs, NextSeq(c) \/ UNCHANGED core_task_seq
  PROVE  core_task_seq' \in [CPUs -> 0 .. SeqMod - 1]
<1>1. core_task_seq \in [CPUs -> 0 .. SeqMod - 1] /\ core[c] \in CPUs
  BY DEF Inv, CoreFields
<1>2. (core_task_seq[core[c]] + 1) % SeqMod \in 0 .. SeqMod - 1
  BY <1>1, Wraps, UserAssumption
<1> QED BY <1>1, <1>2 DEF NextSeq

\* Every step under the lock of a run queue.
LEMMA QueueStepKeeps ==
  ASSUME Inv, NEW l \in Lockers, QueueStep(l), fault = "none"
  PROVE  Inv'
<1>1. UNCHANGED <<__sched_core_enabled, core_enabled, core, useVars, lock, cpuVars, locker,
                  readers, flip, warned>>
  BY DEF QueueStep
<1>2. /\ TaskFields /\ core_tree \subseteq cookie /\ cookie \subseteq using
      /\ core_task_seq \in [CPUs -> 0 .. SeqMod - 1]
  BY DEF Inv, Trees, CoreFields
<1>3. CASE \E c \in locker[l].got : pick_next_task(c)
  <2>1. UNCHANGED <<core_task_seq, core_tree, cookie, queued>> /\ fault' = "pick_task"
    BY <1>3 DEF pick_next_task, taskVars
  <2> QED BY <1>1, <1>2, <2>1, QueueKeeps DEF TaskFields
<1>4. ASSUME NEW u \in Users, enqueue_task(u) \/ dequeue_task(u) \/ sched_core_update_cookie(u), UNCHANGED fault
      PROVE  Inv'
  <2>1. Home[u] \in CPUs
    BY UserAssumption
  <2>2. NextSeq(Home[u]) \/ UNCHANGED core_task_seq
    BY <1>4 DEF enqueue_task, dequeue_task, sched_core_update_cookie
  <2>3. core_task_seq' \in [CPUs -> 0 .. SeqMod - 1]
    BY <2>1, <2>2, SeqIs
  <2>4. CASE enqueue_task(u) \/ dequeue_task(u)
    <3>1. TaskFields' /\ core_tree' \subseteq cookie' /\ cookie' = cookie
      BY <1>2, <2>4 DEF TaskFields, enqueue_task, dequeue_task
    <3> QED BY <1>1, <1>2, <1>4, <2>3, <3>1, QueueKeeps
  <2>5. CASE sched_core_update_cookie(u)
    <3>1. user[u] = "in" /\ u \in using
      BY <2>5 DEF sched_core_update_cookie, using
    <3>2. TaskFields' /\ core_tree' \subseteq cookie' /\ cookie' \subseteq cookie \cup {u}
      BY <1>2, <2>5 DEF TaskFields, sched_core_update_cookie
    <3> QED BY <1>1, <1>2, <1>4, <2>3, <3>1, <3>2, QueueKeeps
  <2> QED BY <1>4, <2>4, <2>5
<1> QED BY <1>3, <1>4 DEF QueueStep

-----------------------------------------------------------------------------
(* The references.                                                         *)

UseFrame == UNCHANGED <<coreVars, taskVars, lock, cpuVars, locker, readers, warned, fault>>

\* What a step of a user or of the work must keep.
LEMMA UseKeeps ==
  ASSUME Inv, UseFrame, UseFields', Waited', Switched', FlipLocks', Counted', Mutex',
    cookie \subseteq using'
  PROVE  Inv'
<1>1. UNCHANGED <<__sched_core_enabled, core_enabled, core, core_task_seq, core_tree, cookie,
                  queued,
                  lock, online, present, hp, locker, readers, warned, fault>>
  BY DEF UseFrame, coreVars, taskVars, cpuVars
<1>2. (CoreFields /\ TaskFields /\ LockFields /\ CpuFields)'
  BY <1>1 DEF Inv, CoreFields, TaskFields, LockFields, CpuFields
<1>3. (Places /\ HpLocks)'
  BY <1>1 DEF Inv, Places, Placed, HpLocks, cpu_smt_mask
<1>4. Held'
  BY <1>1 DEF Inv, Held, Holds, rq_lockp, sched_core_enabled
<1>5. (Leaders /\ Trees)'
  BY <1>1 DEF Inv, Leaders, OneLeader, Trees
<1> QED BY <1>2, <1>3, <1>4, <1>5 DEF Inv

\* A step that leaves flip alone.
LEMMA CountKeeps ==
  ASSUME Inv, UseFrame, flip' = flip, UseFields', Counted', Mutex', cookie \subseteq using'
  PROVE  Inv'
<1>1. UNCHANGED <<__sched_core_enabled, core_enabled, online, present, hp, lock, locker, readers>>
  BY DEF UseFrame, coreVars, cpuVars
<1>2. (Waited /\ Switched /\ FlipLocks)'
  BY <1>1 DEF Inv, Waited, Switched, AllAre, FlipLocks, cpu_smt_mask
<1> QED BY <1>2, UseKeeps

\* How many have a reference after a step of one user.
LEMMA UsingMoves ==
  ASSUME user \in [Users -> UserStates], NEW u \in Users, NEW s \in UserStates,
         user' = [user EXCEPT ![u] = s]
  PROVE  /\ Cardinality(using) \in Nat
         /\ user[u] = "in" => Cardinality(using) > 0
         /\ user[u] # "in" /\ s = "in" => using' = using \cup {u} /\ Cardinality(using') = Cardinality(using) + 1
         /\ user[u] = "in" /\ s # "in" => using' = using \ {u} /\ Cardinality(using') = Cardinality(using) - 1
         /\ user[u] # "in" /\ s # "in" => using' = using
<1>1. IsFiniteSet(using)
  BY FS_Subset, UserAssumption DEF using
<1>2. Cardinality(using) \in Nat
  BY <1>1, FS_CardinalityType
<1>3. user[u] = "in" => Cardinality(using) > 0
  BY <1>1, <1>2, FS_EmptySet DEF using
<1>4. user[u] # "in" /\ s = "in" => using' = using \cup {u} /\ u \notin using
  BY DEF using
<1>5. user[u] = "in" /\ s # "in" => using' = using \ {u} /\ u \in using
  BY DEF using
<1>6. user[u] # "in" /\ s # "in" => using' = using
  BY DEF using
<1>7. user[u] # "in" /\ s = "in" => Cardinality(using') = Cardinality(using) + 1
  BY <1>1, <1>4, FS_AddElement
<1>8. user[u] = "in" /\ s # "in" => Cardinality(using') = Cardinality(using) - 1
  BY <1>1, <1>5, FS_RemoveElement
<1> QED BY <1>2, <1>3, <1>4, <1>5, <1>6, <1>7, <1>8

\* The references, counted.
LEMMA References ==
  ASSUME Inv
  PROVE  /\ Cardinality(using) \in Nat /\ sched_core_count \in Nat
         /\ user \in [Users -> UserStates] /\ flip.pc \in FlipPcs /\ flip.by \in Names
         /\ \A u \in Users : user[u] = "in" => Cardinality(using) > 0
<1>1. IsFiniteSet(using)
  BY FS_Subset, UserAssumption DEF using
<1>2. Cardinality(using) \in Nat
  BY <1>1, FS_CardinalityType
<1>3. \A u \in Users : user[u] = "in" => Cardinality(using) > 0
  BY <1>1, <1>2, FS_EmptySet DEF using
<1>4. user \in [Users -> UserStates] /\ flip.pc \in FlipPcs /\ flip.by \in Names
  BY DEF Inv, UseFields, FlipStates
<1>5. sched_core_count \in Nat
  BY <1>2 DEF Inv, Counted, One
<1> QED BY <1>2, <1>3, <1>4, <1>5

\* With the mutex free nobody switches.
LEMMA Unlocked ==
  ASSUME Inv, sched_core_mutex = None
  PROVE  /\ flip.pc = "idle" /\ flip.by = None /\ ~ flip.enabled /\ worker # "disabling"
         /\ \A u \in Users : user[u] \notin {"enabling", "add"}
<1>1. None \notin Users /\ None # Flipper /\ flip.by \in Names
  BY References, NameAssumption
<1> QED BY <1>1 DEF Inv, Mutex, Names

\* sched_core_get(): the fast path, and the start of the slow one.
LEMMA GetKeeps ==
  ASSUME Inv, NEW u \in Users, sched_core_get(u), UseFrame
  PROVE  Inv'
<1>1. /\ user[u] = "out" /\ UNCHANGED <<sched_core_mutex, work, worker, flip,
                                        __sched_core_enabled, cookie, warned>>
      /\ UseFields /\ Counted /\ Mutex /\ cookie \subseteq using
  BY DEF sched_core_get, UseFrame, coreVars, taskVars, Inv, Trees
<1>2. CASE sched_core_count > 0
  <2>1. sched_core_count' = sched_core_count + 1 /\ user' = [user EXCEPT ![u] = "in"]
    BY <1>2 DEF sched_core_get
  <2>2. using' = using \cup {u} /\ Cardinality(using') = Cardinality(using) + 1
    BY <1>1, <2>1, References, UsingMoves DEF UserStates
  <2>3. UseFields'
    BY <1>1, <2>1 DEF UseFields, UserStates
  <2>4. Counted'
    BY <1>1, <1>2, <2>1, <2>2, References DEF Counted, One, UseFields
  <2>5. Mutex'
    BY <1>1, <2>1 DEF Mutex, UseFields
  <2> QED BY <1>1, <2>2, <2>3, <2>4, <2>5, CountKeeps
<1>3. CASE ~ sched_core_count > 0
  <2>1. sched_core_count' = sched_core_count /\ user' = [user EXCEPT ![u] = "slow"]
    BY <1>3 DEF sched_core_get
  <2>2. using' = using
    BY <1>1, <2>1, References, UsingMoves DEF UserStates
  <2>3. UseFields'
    BY <1>1, <2>1 DEF UseFields, UserStates
  <2>4. Counted'
    BY <1>1, <2>1, <2>2 DEF Counted, One, UseFields
  <2>5. Mutex'
    BY <1>1, <2>1 DEF Mutex, UseFields
  <2> QED BY <1>1, <2>2, <2>3, <2>4, <2>5, CountKeeps
<1> QED BY <1>2, <1>3

\* The slow path of sched_core_get() has the mutex.
LEMMA GetLockKeeps ==
  ASSUME Inv, NEW u \in Users, GetLock(u), UseFrame
  PROVE  Inv'
<1>1. /\ user[u] = "slow" /\ sched_core_mutex = None /\ sched_core_mutex' = u
      /\ UNCHANGED <<sched_core_count, work, worker, __sched_core_enabled, core_enabled, cookie,
                     warned, readers,
                     locker, online, present, hp, lock>>
      /\ UseFields /\ Counted /\ Mutex /\ cookie \subseteq using
  BY DEF GetLock, UseFrame, coreVars, taskVars, cpuVars, Inv, Trees
<1>2. /\ flip.pc = "idle" /\ flip.by = None /\ ~ flip.enabled /\ worker # "disabling"
      /\ \A v \in Users : user[v] \notin {"enabling", "add"}
  BY <1>1, Unlocked
<1>3. None \notin Users /\ Flipper \notin Users
  BY NameAssumption
<1>4. CASE sched_core_count = 0
  <2>1. /\ user' = [user EXCEPT ![u] = "enabling"]
        /\ flip' = [NoFlip EXCEPT !.pc = "key", !.by = u, !.enabled = TRUE]
    BY <1>4 DEF GetLock
  <2>2. flip' = [pc |-> "key", by |-> u, enabled |-> TRUE, mask |-> {}, todo |-> {}, held |-> {}]
    BY <2>1 DEF NoFlip
  <2>3. using' = using
    BY <1>1, <2>1, References, UsingMoves DEF UserStates
  <2>4. UseFields'
    <3>1. flip' \in FlipStates
      BY <2>2 DEF FlipStates, FlipPcs, Names
    <3> QED BY <1>1, <2>1, <3>1 DEF UseFields, UserStates, Names
  <2>5. readers = {} /\ ~ __sched_core_enabled
    BY <1>1, <1>2, <1>4 DEF Inv, Waited, Counted
  <2>6. (Waited /\ Switched /\ FlipLocks)'
    BY <1>1, <2>2, <2>5 DEF Inv, Waited, Switched, AllAre, FlipLocks
  <2>7. Counted'
    BY <1>1, <1>2, <1>3, <1>4, <2>1, <2>2, <2>3, <2>5 DEF Counted, One, UseFields
  <2>8. Mutex'
    BY <1>1, <1>2, <1>3, <2>1, <2>2 DEF Mutex, UseFields
  <2> QED BY <1>1, <2>3, <2>4, <2>6, <2>7, <2>8, UseKeeps
<1>5. CASE sched_core_count # 0
  <2>1. user' = [user EXCEPT ![u] = "add"] /\ flip' = flip
    BY <1>5 DEF GetLock
  <2>2. using' = using
    BY <1>1, <2>1, References, UsingMoves DEF UserStates
  <2>3. UseFields'
    BY <1>1, <2>1 DEF UseFields, UserStates, Names
  <2>4. Counted'
    BY <1>1, <1>2, <1>3, <1>5, <2>1, <2>2, References DEF Counted, One, UseFields
  <2>5. Mutex'
    BY <1>1, <1>2, <1>3, <2>1 DEF Mutex, UseFields
  <2> QED BY <1>1, <2>1, <2>2, <2>3, <2>4, <2>5, CountKeeps
<1> QED BY <1>4, <1>5

\* It adds its reference, and unlocks the mutex.
LEMMA GetAddKeeps ==
  ASSUME Inv, NEW u \in Users, GetAdd(u), UseFrame
  PROVE  Inv'
<1>1. /\ user[u] = "add" /\ sched_core_mutex' = None
      /\ UNCHANGED <<work, worker, flip, __sched_core_enabled, cookie, warned>>
      /\ UseFields /\ Counted /\ Mutex /\ cookie \subseteq using
      /\ sched_core_count' = sched_core_count + 1 /\ user' = [user EXCEPT ![u] = "in"]
  BY DEF GetAdd, UseFrame, coreVars, taskVars, Inv, Trees
<1>2. None \notin Users /\ Flipper \notin Users /\ None # Flipper
  BY NameAssumption
<1>3. using' = using \cup {u} /\ Cardinality(using') = Cardinality(using) + 1
  BY <1>1, References, UsingMoves DEF UserStates
<1>4. UseFields'
  BY <1>1 DEF UseFields, UserStates, Names
<1>5. Counted'
  BY <1>1, <1>3, References DEF Counted, One, UseFields
<1>6. Mutex'
  BY <1>1, <1>2 DEF Mutex, UseFields
<1> QED BY <1>1, <1>3, <1>4, <1>5, <1>6, CountKeeps

\* sched_core_put(): the last reference is left to the work.
LEMMA PutKeeps ==
  ASSUME Inv, NEW u \in Users, sched_core_put(u), UseFrame
  PROVE  Inv'
<1>1. /\ user[u] = "in" /\ u \notin cookie /\ user' = [user EXCEPT ![u] = "out"]
      /\ UNCHANGED <<sched_core_mutex, worker, flip, __sched_core_enabled, cookie, warned>>
      /\ UseFields /\ Counted /\ Mutex /\ cookie \subseteq using
  BY DEF sched_core_put, UseFrame, coreVars, taskVars, Inv, Trees
<1>2. using' = using \ {u} /\ Cardinality(using') = Cardinality(using) - 1 /\ Cardinality(using) > 0
  BY <1>1, References, UsingMoves DEF UserStates
<1>3. Mutex'
  BY <1>1 DEF Mutex, UseFields
<1>4. CASE sched_core_count # 1
  <2>1. sched_core_count' = sched_core_count - 1 /\ work' = work
    BY <1>4 DEF sched_core_put
  <2>2. UseFields'
    BY <1>1, <2>1 DEF UseFields, UserStates
  <2>3. Counted'
    BY <1>1, <1>2, <1>4, <2>1, References DEF Counted, One, UseFields
  <2> QED BY <1>1, <1>2, <1>3, <2>2, <2>3, CountKeeps
<1>5. CASE sched_core_count = 1
  <2>1. sched_core_count' = sched_core_count /\ work' = TRUE
    BY <1>5 DEF sched_core_put
  <2>2. UseFields'
    BY <1>1, <2>1 DEF UseFields, UserStates
  <2>3. Counted'
    BY <1>1, <1>2, <1>5, <2>1, References DEF Counted, One, UseFields
  <2> QED BY <1>1, <1>2, <1>3, <2>2, <2>3, CountKeeps
<1> QED BY <1>4, <1>5

\* The work begins, with the reference that was left to it.
LEMMA WorkStartKeeps ==
  ASSUME Inv, WorkStart, UseFrame
  PROVE  Inv'
<1>1. /\ work /\ worker = "idle" /\ work' = FALSE /\ worker' = "dec"
      /\ UNCHANGED <<sched_core_count, sched_core_mutex, user, flip, __sched_core_enabled, cookie,
                     warned>>
      /\ UseFields /\ Counted /\ Mutex /\ cookie \subseteq using /\ using' = using
  BY DEF WorkStart, UseFrame, coreVars, taskVars, Inv, Trees, using
<1>2. UseFields' /\ Mutex'
  BY <1>1 DEF UseFields, UserStates, Mutex
<1>3. Counted'
  BY <1>1, References DEF Counted, One, UseFields
<1> QED BY <1>1, <1>2, <1>3, CountKeeps

\* The work gives the reference back if it is not the last.
LEMMA WorkDecKeeps ==
  ASSUME Inv, WorkDec, UseFrame
  PROVE  Inv'
<1>1. /\ worker = "dec" /\ worker' \in {"idle", "lock"}
      /\ \/ sched_core_count # 1 /\ sched_core_count' = sched_core_count - 1 /\ worker' = "idle"
         \/ sched_core_count' = sched_core_count /\ worker' = "lock"
      /\ UNCHANGED <<sched_core_mutex, user, work, flip, __sched_core_enabled, cookie, warned>>
      /\ UseFields /\ Counted /\ Mutex /\ cookie \subseteq using /\ using' = using
  BY DEF WorkDec, UseFrame, coreVars, taskVars, Inv, Trees, using
<1>2. UseFields' /\ Mutex'
  BY <1>1 DEF UseFields, UserStates, Mutex
<1>3. Counted'
  BY <1>1, References DEF Counted, One, UseFields
<1> QED BY <1>1, <1>2, <1>3, CountKeeps

\* The work has the mutex, and looks again.
LEMMA WorkLockKeeps ==
  ASSUME Inv, WorkLock, UseFrame
  PROVE  Inv'
<1>1. /\ worker = "lock" /\ sched_core_mutex = None /\ sched_core_count' = sched_core_count - 1
      /\ UNCHANGED <<user, work, __sched_core_enabled, core_enabled, cookie, warned, readers,
                     locker, online, present, hp, lock>>
      /\ UseFields /\ Counted /\ Mutex /\ cookie \subseteq using /\ using' = using
  BY DEF WorkLock, UseFrame, coreVars, taskVars, cpuVars, Inv, Trees, using
<1>2. /\ flip.pc = "idle" /\ flip.by = None /\ ~ flip.enabled /\ worker # "disabling"
      /\ \A v \in Users : user[v] \notin {"enabling", "add"}
  BY <1>1, Unlocked
<1>3. None \notin Users /\ Flipper \notin Users /\ Flipper # None
  BY NameAssumption
<1>4. CASE sched_core_count = 1
  <2>1. /\ sched_core_mutex' = Flipper /\ worker' = "disabling"
        /\ flip' = [pc |-> "assert", by |-> Flipper, enabled |-> FALSE, mask |-> {}, todo |-> {}, held |-> {}]
    BY <1>4 DEF WorkLock, StartDisable, NoFlip
  <2>2. UseFields'
    BY <1>1, <2>1 DEF UseFields, UserStates, FlipStates, FlipPcs, Names
  <2>3. readers = {} /\ __sched_core_enabled
    BY <1>1, <1>2, <1>4 DEF Inv, Waited, Counted
  <2>4. (Waited /\ Switched /\ FlipLocks)'
    BY <1>1, <2>1, <2>3 DEF Inv, Waited, Switched, AllAre, FlipLocks
  <2>5. Counted'
    BY <1>1, <1>2, <1>3, <1>4, <2>1, <2>3, References DEF Counted, One, UseFields
  <2>6. Mutex'
    BY <1>1, <1>2, <1>3, <2>1 DEF Mutex, UseFields
  <2> QED BY <1>1, <2>2, <2>4, <2>5, <2>6, UseKeeps
<1>5. CASE sched_core_count # 1
  <2>1. worker' = "idle" /\ sched_core_mutex' = sched_core_mutex /\ flip' = flip
    BY <1>5 DEF WorkLock
  <2>2. UseFields' /\ Mutex'
    BY <1>1, <1>2, <2>1 DEF UseFields, UserStates, Mutex
  <2>3. Counted'
    BY <1>1, <1>2, <1>5, <2>1, References DEF Counted, One, UseFields
  <2> QED BY <1>1, <2>1, <2>2, <2>3, CountKeeps
<1> QED BY <1>4, <1>5

-----------------------------------------------------------------------------
(* The switch.                                                             *)

\* A locker keeps what it holds if no lock is taken from it, and no run queue it
\* has gets another lock.
LEMMA HeldStays ==
  ASSUME Inv, locker' = locker,
         \A c \in CPUs : lock[c] \in Lockers => lock'[c] = lock[c],
         \A c \in online : lock[rq_lockp(c)] \in Lockers => rq_lockp(c)' = rq_lockp(c)
  PROVE  Held'
<1> SUFFICES ASSUME NEW l \in Lockers PROVE Holds(l, locker[l])'
  BY DEF Held
<1>1. /\ Holds(l, locker[l]) /\ locker'[l] = locker[l] /\ Placed(locker[l])
      /\ locker[l].got \subseteq online
      /\ \A c \in locker[l].got : rq_lockp(c) \in CPUs /\ lock[rq_lockp(c)] = l
  BY LockerIs DEF Placed, Holds
<1>2. \A c \in locker[l].got : rq_lockp(c)' = rq_lockp(c) /\ lock'[rq_lockp(c)] = l
  BY <1>1
<1>3. locker[l].pc = "check" => lock'[locker[l].on] = l /\ \A c \in locker[l].got : rq_lockp(c) # locker[l].on
  BY <1>1 DEF Holds, Placed
<1> QED BY <1>1, <1>2, <1>3 DEF Holds

FlipFrame == UNCHANGED <<taskVars, cpuVars, locker, fault, core, core_task_seq>>

\* What a step of a switch must keep.
LEMMA FlipKeeps ==
  ASSUME Inv, FlipFrame, CoreFields', LockFields', UseFields', Held', Waited', Switched',
    FlipLocks',
         \A c \in CPUs : lock[c] = Hp => lock'[c] = Hp,
         Counted', Mutex', Trees'
  PROVE  Inv'
<1>1. UNCHANGED <<core, core_task_seq, core_tree, cookie, queued, online, present, hp, locker,
                  fault>>
  BY DEF FlipFrame, taskVars, cpuVars
<1>2. (TaskFields /\ CpuFields /\ Places /\ Leaders)'
  BY <1>1 DEF Inv, TaskFields, CpuFields, Places, Placed, Leaders, OneLeader
<1>3. hp.held \subseteq CPUs
  BY DEF Inv, CpuFields, HpStates
<1>4. HpLocks'
  BY <1>1, <1>3 DEF Inv, HpLocks, cpu_smt_mask
<1> QED BY <1>2, <1>4 DEF Inv

\* While core scheduling is switched, nobody has a reference.
LEMMA Switching ==
  ASSUME Inv, flip.pc # "idle"
  PROVE  /\ sched_core_count = 0 /\ sched_core_mutex = flip.by /\ flip.by # None
         /\ \A u \in Users : user[u] \notin {"in", "add"}
         /\ core_tree = {} /\ cookie = {} /\ using = {} /\ flip \in FlipStates
         /\ ~ work /\ worker \notin {"dec", "lock"}
<1>1. sched_core_count = 0 /\ flip.by # None /\ flip \in FlipStates /\ \A u \in Users : user[u] # "add"
  BY DEF Inv, Counted, Mutex, UseFields
<1>2. sched_core_mutex = flip.by
  BY <1>1 DEF Inv, Mutex, UseFields, FlipStates, Names
<1>3. \A u \in Users : user[u] # "in"
  BY <1>1, References DEF Inv, Counted, One
<1>4. ~ work /\ worker \notin {"dec", "lock"}
  BY <1>1, References DEF Inv, Counted, One
<1>5. using = {} /\ core_tree = {} /\ cookie = {}
  BY <1>3 DEF using, Inv, Trees
<1> QED BY <1>1, <1>2, <1>3, <1>4, <1>5

\* A step of a switch that leaves the references and the run queues alone.
LEMMA FlipMoves ==
  ASSUME Inv, FlipFrame, flip.pc # "idle", flip' \in FlipStates, flip'.pc # "idle",
         flip'.by = flip.by, flip'.enabled = flip.enabled, __sched_core_enabled' = TRUE,
         UNCHANGED <<useVars, warned, core_enabled>>,
         \A c \in online : rq_lockp(c)' = rq_lockp(c),
         lock' \in [CPUs -> Lockers \cup {Flipper, Hp, None}], \A c \in CPUs : lock[c] # None => lock'[c] = lock[c],
         readers' \subseteq Lockers, Waited', Switched', FlipLocks'
  PROVE  Inv'
<1>1. UNCHANGED <<core, core_task_seq, core_tree, cookie, queued, online, present, hp, locker,
                  fault,
                  sched_core_count, sched_core_mutex, user, work, worker, warned, core_enabled>>
  BY DEF FlipFrame, taskVars, cpuVars, useVars
<1>2. CoreFields' /\ LockFields' /\ UseFields'
  BY <1>1 DEF Inv, CoreFields, LockFields, UseFields
<1>3. None # Hp /\ None \notin Lockers
  BY NameAssumption
<1>4. Held'
  BY <1>1, <1>3, HeldStays
<1>5. Counted'
  BY <1>1, Switching DEF Inv, Counted, One, using
<1>6. Mutex' /\ Trees'
  BY <1>1 DEF Inv, Mutex, Trees, using
<1> QED BY <1>2, <1>3, <1>4, <1>5, <1>6, FlipKeeps

\* The key goes on, and the lockers that may not have seen it are waited for.
LEMMA FlipKeyKeeps ==
  ASSUME Inv, FlipKey, FlipFrame
  PROVE  Inv'
<1>1. /\ flip.pc = "key" /\ flip' = [flip EXCEPT !.pc = "sync"] /\ __sched_core_enabled' = TRUE
      /\ readers' = {l \in Lockers : locker[l].pc # "idle"}
      /\ UNCHANGED <<useVars, lock, core_enabled, warned, core, locker, online, present, hp>>
  BY DEF FlipKey, FlipFrame, cpuVars
<1>2. /\ flip \in FlipStates /\ lock \in [CPUs -> Lockers \cup {Flipper, Hp, None}]
      /\ online \subseteq CPUs
  BY DEF Inv, UseFields, LockFields, CpuFields
<1>3. /\ flip' \in FlipStates /\ flip'.pc = "sync" /\ flip'.by = flip.by
      /\ flip'.enabled = flip.enabled
      /\ flip'.held = flip.held /\ flip'.todo = flip.todo
  BY <1>1, <1>2 DEF FlipStates, FlipPcs
<1>4. flip.enabled /\ ~ __sched_core_enabled /\ AllAre(FALSE)
  BY <1>1 DEF Inv, Switched
<1>5. \A c \in online : rq_lockp(c)' = rq_lockp(c)
  BY <1>1, <1>2, <1>4 DEF AllAre, rq_lockp, sched_core_enabled
<1>6. (Waited /\ Switched /\ FlipLocks)'
  BY <1>1, <1>3, <1>4 DEF Inv, Waited, Switched, AllAre, FlipLocks
<1> QED BY <1>1, <1>2, <1>3, <1>5, <1>6, FlipMoves

\* Everybody has seen the key: the run queues are switched, first those of CPUs that are online.
LEMMA FlipBeginKeeps ==
  ASSUME Inv, FlipBegin, FlipFrame
  PROVE  Inv'
<1>1. /\ flip.pc = "sync" /\ flip' = [flip EXCEPT !.pc = "core", !.mask = online] /\ readers = {}
      /\ hp.pc = "idle"
      /\ UNCHANGED <<useVars, lock, __sched_core_enabled, core_enabled, readers, warned, core,
                     locker, online, present, hp>>
  BY DEF FlipBegin, FlipFrame, cpuVars
<1>2. /\ flip \in FlipStates /\ lock \in [CPUs -> Lockers \cup {Flipper, Hp, None}]
      /\ online \subseteq CPUs
  BY DEF Inv, UseFields, LockFields, CpuFields
<1>3. /\ flip' \in FlipStates /\ flip'.pc = "core" /\ flip'.by = flip.by
      /\ flip'.enabled = flip.enabled
      /\ flip'.mask = online /\ flip'.held = flip.held /\ flip'.todo = flip.todo
  BY <1>1, <1>2 DEF FlipStates, FlipPcs
<1>4. __sched_core_enabled
  BY <1>1 DEF Inv, Switched
<1>5. \A c \in online : rq_lockp(c)' = rq_lockp(c)
  BY <1>1 DEF rq_lockp, sched_core_enabled
<1>6. (Waited /\ Switched /\ FlipLocks)'
  BY <1>1, <1>3, <1>4 DEF Inv, Waited, Switched, AllAre, FlipLocks
<1> QED BY <1>1, <1>2, <1>3, <1>4, <1>5, <1>6, FlipMoves

\* The next core.
LEMMA FlipCoreKeeps ==
  ASSUME Inv, FlipCore, FlipFrame
  PROVE  Inv'
<1>1. /\ flip.pc = "core" /\ flip.mask # {}
      /\ flip' = [flip EXCEPT !.pc = "lock", !.todo = cpu_smt_mask(Min(flip.mask))]
      /\ UNCHANGED <<useVars, lock, __sched_core_enabled, core_enabled, readers, warned, core,
                     locker, online, present, hp>>
  BY DEF FlipCore, FlipFrame, cpuVars
<1>2. /\ flip \in FlipStates /\ lock \in [CPUs -> Lockers \cup {Flipper, Hp, None}]
      /\ present \subseteq CPUs
      /\ readers \subseteq Lockers
  BY DEF Inv, UseFields, LockFields, CpuFields
<1>3. cpu_smt_mask(Min(flip.mask)) \subseteq CPUs
  BY <1>2 DEF cpu_smt_mask
<1>4. /\ flip' \in FlipStates /\ flip'.pc = "lock" /\ flip'.by = flip.by
      /\ flip'.enabled = flip.enabled
      /\ flip'.mask = flip.mask /\ flip'.held = flip.held
      /\ flip'.todo = cpu_smt_mask(Min(flip.mask))
  BY <1>1, <1>2, <1>3 DEF FlipStates, FlipPcs
<1>5. __sched_core_enabled
  BY <1>1 DEF Inv, Switched
<1>6. \A c \in online : rq_lockp(c)' = rq_lockp(c)
  BY <1>1 DEF rq_lockp, sched_core_enabled
<1>7. (Waited /\ Switched)'
  BY <1>1, <1>4 DEF Inv, Waited, Switched, AllAre
<1>8. FlipLocks'
  BY <1>1, <1>4 DEF Inv, FlipLocks, cpu_smt_mask
<1> QED BY <1>1, <1>2, <1>4, <1>5, <1>6, <1>7, <1>8, FlipMoves

\* sched_core_lock() takes a lock that is free.
LEMMA CoreLockTakes ==
  ASSUME Inv, NEW todo \in SUBSET CPUs, NEW a \in {Flipper, Hp}, sched_core_lock(todo, a)
  PROVE  /\ Min(todo) \in todo
         /\ lock' \in [CPUs -> Lockers \cup {Flipper, Hp, None}] /\ lock'[Min(todo)] = a
         /\ \A c \in CPUs : lock[c] # None => lock'[c] = lock[c]
<1>1. Min(todo) \in todo
  BY FirstCpu, CpuAssumption DEF sched_core_lock
<1>2. lock \in [CPUs -> Lockers \cup {Flipper, Hp, None}]
  BY DEF Inv, LockFields
<1> QED BY <1>1, <1>2 DEF sched_core_lock

\* The lock of the next CPU of the core.
LEMMA FlipLockKeeps ==
  ASSUME Inv, FlipLock, FlipFrame
  PROVE  Inv'
<1>1. PICK m : m = Min(flip.todo)
  OBVIOUS
<1>2. /\ sched_core_lock(flip.todo, Flipper)
      /\ flip' = [flip EXCEPT !.todo = flip.todo \ {m}, !.held = flip.held \cup {m}]
      /\ UNCHANGED <<useVars, __sched_core_enabled, core_enabled, readers, warned, core, locker,
                     online, present, hp>>
  BY <1>1 DEF FlipLock, FlipFrame, cpuVars
<1>3. /\ flip \in FlipStates /\ flip.todo \in SUBSET CPUs /\ flip.todo # {}
      /\ readers \subseteq Lockers /\ flip.held \subseteq CPUs
  BY <1>2 DEF Inv, UseFields, FlipStates, LockFields, sched_core_lock
<1>4. /\ m \in flip.todo /\ lock' \in [CPUs -> Lockers \cup {Flipper, Hp, None}]
      /\ lock'[m] = Flipper
      /\ \A c \in CPUs : lock[c] # None => lock'[c] = lock[c]
  BY <1>1, <1>2, <1>3, CoreLockTakes
<1>5. /\ flip' \in FlipStates /\ flip'.pc = flip.pc /\ flip'.by = flip.by
      /\ flip'.enabled = flip.enabled
      /\ flip'.mask = flip.mask /\ flip'.held = flip.held \cup {m} /\ flip'.todo = flip.todo \ {m}
  BY <1>2, <1>3, <1>4 DEF FlipStates
<1>6. flip.pc = "lock" /\ __sched_core_enabled
  BY <1>3 DEF Inv, FlipLocks, Switched
<1>7. \A c \in online : rq_lockp(c)' = rq_lockp(c)
  BY <1>2 DEF rq_lockp, sched_core_enabled
<1>8. (Waited /\ Switched)'
  BY <1>2, <1>5 DEF Inv, Waited, Switched, AllAre
<1>9. FlipLocks'
  <2>1. Flipper # None /\ \A c \in flip.held : lock[c] = Flipper
    BY NameAssumption DEF Inv, FlipLocks
  <2>2. \A c \in flip'.held : lock'[c] = Flipper
    BY <1>3, <1>4, <1>5, <2>1
  <2> QED BY <1>2, <1>4, <1>5, <1>6, <2>2 DEF Inv, FlipLocks, cpu_smt_mask
<1> QED BY <1>2, <1>3, <1>4, <1>5, <1>6, <1>7, <1>8, <1>9, FlipMoves

\* The lock of a run queue of a core is that of a CPU of the core.
LEMMA LockInCore ==
  ASSUME Inv, NEW m \in CPUs, NEW c \in CPUs, c \in Siblings[m], c \in online
  PROVE  rq_lockp(c) \in Siblings[m] \cap online /\ Siblings[c] = Siblings[m]
<1>1. Siblings[c] = Siblings[m]
  BY SiblingsAssumption
<1>2. core[c] \in online \cap Siblings[c]
  BY DEF Inv, Leaders, OneLeader
<1>3. rq_lockp(c) \in {c, core[c]}
  BY LockOfCpu DEF Inv
<1> QED BY <1>1, <1>2, <1>3

\* The run queues of a core are switched, with all their locks held.
LEMMA FlipSetKeeps ==
  ASSUME Inv, FlipSet, FlipFrame
  PROVE  Inv'
<1>1. /\ flip.pc = "lock" /\ flip.todo = {}
      /\ core_enabled' = [c \in CPUs |-> IF c \in flip.held THEN flip.enabled ELSE core_enabled[c]]
      /\ lock' = [c \in CPUs |-> IF c \in flip.held THEN None ELSE lock[c]]
      /\ flip' = [flip EXCEPT !.pc = "core", !.mask = flip.mask \ flip.held, !.held = {}]
      /\ UNCHANGED <<sched_core_count, sched_core_mutex, user, work, worker, __sched_core_enabled,
                     readers,
                     warned, core, core_task_seq, core_tree, cookie, queued, locker, fault, online,
                     present, hp>>
  BY DEF FlipSet, sched_core_unlock, FlipFrame, cpuVars, taskVars, useVars
<1>2. /\ flip \in FlipStates /\ flip.enabled \in BOOLEAN /\ flip.mask \subseteq online
      /\ online \subseteq CPUs
      /\ flip.mask # {} /\ flip.held = cpu_smt_mask(Min(flip.mask)) /\ __sched_core_enabled
      /\ present = online
      /\ hp.pc = "idle" /\ \A c \in flip.held : lock[c] = Flipper
      /\ \A c \in online \ flip.mask : core_enabled[c] = flip.enabled
  BY <1>1 DEF Inv, UseFields, FlipStates, Switched, FlipLocks, HpLocks, CpuFields
<1>3. PICK m \in flip.mask : m = Min(flip.mask)
  BY <1>2, FirstCpu, CpuAssumption
<1>4. flip.held = Siblings[m] \cap online /\ m \in CPUs
  BY <1>2, <1>3 DEF cpu_smt_mask
<1>5. /\ flip' \in FlipStates /\ flip'.pc = "core" /\ flip'.by = flip.by
      /\ flip'.enabled = flip.enabled
      /\ flip'.mask = flip.mask \ flip.held /\ flip'.held = {} /\ flip'.todo = {}
  BY <1>1, <1>2 DEF FlipStates, FlipPcs
<1>6. Flipper # Hp /\ Flipper \notin Lockers
  BY NameAssumption
<1>7. CoreFields' /\ LockFields' /\ UseFields'
  BY <1>1, <1>2, <1>5 DEF Inv, CoreFields, LockFields, UseFields
<1>8. Held'
  <2>1. \A c \in CPUs : lock[c] \in Lockers => lock'[c] = lock[c]
    BY <1>1, <1>2, <1>6
  <2>2. \A c \in online : lock[rq_lockp(c)] \in Lockers => rq_lockp(c)' = rq_lockp(c)
    <3> SUFFICES ASSUME NEW c \in online,
    lock[rq_lockp(c)] \in Lockers PROVE rq_lockp(c)' = rq_lockp(c)
      OBVIOUS
    <3>1. c \notin flip.held
      BY <1>2, <1>4, <1>6, LockInCore
    <3>2. core_enabled'[c] = core_enabled[c]
      BY <1>1, <1>2, <3>1
    <3> QED BY <1>1, <3>2 DEF rq_lockp, sched_core_enabled
  <2> QED BY <1>1, <2>1, <2>2, HeldStays
<1>9. (Waited /\ Switched)'
  <2>1. \A c \in online \ (flip.mask \ flip.held) : core_enabled'[c] = flip.enabled
    BY <1>1, <1>2
  <2> QED BY <1>1, <1>2, <1>5, <2>1 DEF Inv, Waited, Switched, AllAre
<1>10. FlipLocks'
  BY <1>1, <1>2, <1>5 DEF FlipLocks
<1>11. \A c \in CPUs : lock[c] = Hp => lock'[c] = Hp
  BY <1>1, <1>2, <1>6
<1>12. Counted'
  BY <1>1, <1>5, Switching DEF Inv, Counted, One, using
<1>13. Mutex' /\ Trees'
  BY <1>1, <1>5 DEF Inv, Mutex, Trees, using
<1> QED BY <1>7, <1>8, <1>9, <1>10, <1>11, <1>12, <1>13, FlipKeeps

\* The CPUs that are offline are switched too.
LEMMA FlipOfflineKeeps ==
  ASSUME Inv, FlipOffline, FlipFrame
  PROVE  Inv'
<1>1. /\ flip.pc = "core" /\ flip.mask = {}
      /\ core_enabled' = [c \in CPUs |-> IF c \in online THEN core_enabled[c] ELSE flip.enabled]
      /\ flip' = [flip EXCEPT !.pc = IF flip.enabled THEN "assert" ELSE "key_off"]
      /\ UNCHANGED <<sched_core_count, sched_core_mutex, user, work, worker, __sched_core_enabled,
                     readers, lock,
                     warned, core, core_task_seq, core_tree, cookie, queued, locker, fault, online,
                     present, hp>>
  BY DEF FlipOffline, FlipFrame, cpuVars, taskVars, useVars
<1>2. /\ flip \in FlipStates /\ flip.enabled \in BOOLEAN /\ __sched_core_enabled
      /\ online \subseteq CPUs
      /\ \A c \in online : core_enabled[c] = flip.enabled
  BY <1>1 DEF Inv, UseFields, FlipStates, Switched, CpuFields
<1>3. /\ flip' \in FlipStates /\ flip'.pc = (IF flip.enabled THEN "assert" ELSE "key_off")
      /\ flip'.by = flip.by /\ flip'.enabled = flip.enabled
      /\ flip'.mask = flip.mask /\ flip'.held = flip.held /\ flip'.todo = flip.todo
  BY <1>1, <1>2 DEF FlipStates, FlipPcs
<1>4. \A c \in CPUs : core_enabled'[c] = flip.enabled
  BY <1>1, <1>2
<1>5. CoreFields' /\ LockFields' /\ UseFields'
  BY <1>1, <1>2, <1>3 DEF Inv, CoreFields, LockFields, UseFields
<1>6. Held'
  <2>1. \A c \in online : rq_lockp(c)' = rq_lockp(c)
    BY <1>1, <1>2 DEF rq_lockp, sched_core_enabled
  <2> QED BY <1>1, <2>1, HeldStays
<1>7. (Waited /\ Switched)'
  BY <1>1, <1>2, <1>3, <1>4 DEF Inv, Waited, Switched, AllAre
<1>8. FlipLocks'
  BY <1>1, <1>3 DEF Inv, FlipLocks
<1>9. Counted'
  BY <1>1, <1>3, Switching DEF Inv, Counted, One, using
<1>10. Mutex' /\ Trees'
  BY <1>1, <1>3 DEF Inv, Mutex, Trees, using
<1> QED BY <1>1, <1>5, <1>6, <1>7, <1>8, <1>9, <1>10, FlipKeeps

\* sched_core_assert_empty() does not warn: nobody has a reference.
LEMMA AssertEmptyKeeps ==
  ASSUME Inv, sched_core_assert_empty, FlipFrame
  PROVE  Inv'
<1>1. /\ flip.pc = "assert" /\ warned' = (warned \/ core_tree # {})
      /\ UNCHANGED <<sched_core_count, sched_core_mutex, work, worker, __sched_core_enabled,
                     core_enabled, readers,
                     lock, core, core_task_seq, core_tree, cookie, queued, locker, fault, online,
                     present, hp>>
  BY DEF sched_core_assert_empty, FlipFrame, cpuVars, taskVars
<1>2. /\ flip \in FlipStates /\ flip.enabled \in BOOLEAN /\ __sched_core_enabled
      /\ online \subseteq CPUs
      /\ flip.enabled => AllAre(TRUE) /\ flip.by \in Users /\ user[flip.by] = "enabling"
      /\ ~ flip.enabled => flip.by \notin Users
      /\ flip.held = {} /\ flip.todo = {} /\ readers = {} /\ user \in [Users -> UserStates]
  BY <1>1 DEF Inv, UseFields, FlipStates, Switched, CpuFields, Mutex, FlipLocks, Waited
<1>3. /\ sched_core_count = 0 /\ sched_core_mutex = flip.by /\ flip.by # None
      /\ \A u \in Users : user[u] \notin {"in", "add"}
      /\ core_tree = {} /\ cookie = {} /\ ~ work /\ worker \notin {"dec", "lock"}
  BY <1>1, Switching
<1>4. warned' = FALSE
  BY <1>1, <1>3 DEF Inv, Trees
<1>5. None \notin Users /\ Flipper \notin Users /\ Flipper # None
  BY NameAssumption
<1>6. CoreFields' /\ LockFields'
  BY <1>1 DEF Inv, CoreFields, LockFields
<1>7. Held'
  <2>1. \A c \in online : rq_lockp(c)' = rq_lockp(c)
    BY <1>1 DEF rq_lockp, sched_core_enabled
  <2> QED BY <1>1, <2>1, HeldStays
<1>8. CASE flip.enabled
  <2>1. /\ flip' = [pc |-> "idle", by |-> None, enabled |-> FALSE, mask |-> {}, todo |-> {}, held |-> {}]
        /\ user' = [user EXCEPT ![flip.by] = "add"]
    BY <1>8 DEF sched_core_assert_empty, NoFlip
  <2>2. flip' \in FlipStates
    BY <2>1 DEF FlipStates, FlipPcs, Names
  <2>3. UseFields'
    BY <1>1, <1>2, <1>4, <2>1, <2>2 DEF Inv, UseFields, UserStates
  <2>4. using' = using /\ Trees'
    BY <1>1, <1>2, <1>3, <1>4, <2>1 DEF using, Trees
  <2>5. (Waited /\ Switched)'
    BY <1>1, <1>2, <1>8, <2>1 DEF Inv, Waited, Switched, AllAre
  <2>6. FlipLocks'
    BY <1>1, <2>1 DEF FlipLocks
  <2>7. Counted'
    BY <1>1, <1>2, <1>3, <1>5, <2>1, <2>4 DEF Inv, Counted, One
  <2>8. Mutex'
    <3>1. Mutex
      BY DEF Inv
    <3> QED BY <1>1, <1>2, <1>3, <1>5, <1>8, <2>1, <3>1 DEF Mutex
  <2> QED BY <1>1, <1>6, <1>7, <2>3, <2>4, <2>5, <2>6, <2>7, <2>8, FlipKeeps
<1>9. CASE ~ flip.enabled
  <2>1. flip' = [flip EXCEPT !.pc = "sync"] /\ user' = user
    BY <1>9 DEF sched_core_assert_empty
  <2>2. /\ flip' \in FlipStates /\ flip'.pc = "sync" /\ flip'.by = flip.by
        /\ flip'.enabled = flip.enabled
        /\ flip'.mask = flip.mask /\ flip'.held = flip.held /\ flip'.todo = flip.todo
    BY <1>2, <2>1 DEF FlipStates, FlipPcs
  <2>3. UseFields'
    BY <1>1, <1>4, <2>1, <2>2 DEF Inv, UseFields
  <2>4. (Waited /\ Switched)'
    BY <1>1, <1>2, <1>9, <2>2 DEF Inv, Waited, Switched, AllAre
  <2>5. FlipLocks'
    BY <1>1, <1>2, <2>2 DEF FlipLocks
  <2>6. Counted'
    BY <1>1, <1>3, <2>1, <2>2 DEF Inv, Counted, One, using
  <2>7. Mutex' /\ Trees'
    BY <1>1, <1>4, <2>1, <2>2 DEF Inv, Mutex, Trees, using
  <2> QED BY <1>1, <1>6, <1>7, <2>3, <2>4, <2>5, <2>6, <2>7, FlipKeeps
<1> QED BY <1>8, <1>9

\* The key goes off, and no run queue is enabled.
LEMMA FlipKeyOffKeeps ==
  ASSUME Inv, FlipKeyOff, FlipFrame
  PROVE  Inv'
<1>1. /\ flip.pc = "key_off"
      /\ flip' = [pc |-> "idle", by |-> None, enabled |-> FALSE, mask |-> {}, todo |-> {}, held |-> {}]
      /\ __sched_core_enabled' = FALSE /\ sched_core_mutex' = None /\ worker' = "idle"
      /\ UNCHANGED <<sched_core_count, user, work, core_enabled, readers, warned,
                     lock, core, core_task_seq, core_tree, cookie, queued, locker, fault, online,
                     present, hp>>
  BY DEF FlipKeyOff, NoFlip, FlipFrame, cpuVars, taskVars
<1>2. ~ flip.enabled /\ AllAre(FALSE) /\ readers = {} /\ online \subseteq CPUs
  BY <1>1 DEF Inv, Switched, Waited, CpuFields
<1>3. /\ sched_core_count = 0 /\ sched_core_mutex = flip.by /\ flip.by # None /\ flip.by \in Names
      /\ \A u \in Users : user[u] \notin {"in", "add"}
      /\ ~ work /\ worker \notin {"dec", "lock"}
  BY <1>1, Switching DEF FlipStates
<1>4. None \notin Users /\ Flipper \notin Users /\ Flipper # None
  BY NameAssumption
<1>5. flip.by = Flipper
  BY <1>2, <1>3 DEF Inv, Mutex, Names
<1>6. CoreFields' /\ LockFields'
  BY <1>1 DEF Inv, CoreFields, LockFields
<1>7. UseFields'
  <2>1. flip' \in FlipStates
    BY <1>1 DEF FlipStates, FlipPcs, Names
  <2> QED BY <1>1, <2>1 DEF Inv, UseFields, Names
<1>8. Held'
  <2>1. \A c \in online : rq_lockp(c)' = rq_lockp(c)
    BY <1>1, <1>2 DEF rq_lockp, sched_core_enabled, AllAre
  <2> QED BY <1>1, <2>1, HeldStays
<1>9. (Waited /\ Switched)'
  BY <1>1, <1>2 DEF Inv, Waited, Switched, AllAre
<1>10. FlipLocks'
  BY <1>1 DEF FlipLocks
<1>11. Counted'
  BY <1>1, <1>3 DEF Inv, Counted, One, using
<1>12. Mutex'
  <2>1. Mutex
    BY DEF Inv
  <2> QED BY <1>1, <1>3, <1>4, <1>5, <2>1 DEF Mutex
<1>13. Trees'
  BY <1>1 DEF Inv, Trees, using
<1> QED BY <1>1, <1>6, <1>7, <1>8, <1>9, <1>10, <1>11, <1>12, <1>13, FlipKeeps

\* Every step of a switch.
LEMMA FlipStepKeeps ==
  ASSUME Inv, FlipStep
  PROVE  Inv'
BY FlipKeyKeeps, FlipBeginKeeps, FlipCoreKeeps, FlipLockKeeps, FlipSetKeeps, FlipOfflineKeeps,
   AssertEmptyKeeps, FlipKeyOffKeeps DEF FlipStep, FlipFrame

-----------------------------------------------------------------------------
(* CPU hotplug.                                                            *)

HpFrame == UNCHANGED <<taskVars, useVars, locker, readers, flip, warned, fault,
                       __sched_core_enabled, core_enabled>>

\* What a step of hotplug must keep.
LEMMA HpKeeps ==
  ASSUME Inv, HpFrame, CoreFields', CpuFields', lock' \in [CPUs -> Lockers \cup {Flipper, Hp, None}],
         Places', Held', \A c \in CPUs : lock[c] = Flipper => lock'[c] = Flipper,
         flip.pc \notin {"core", "lock"}, HpLocks', Leaders'
  PROVE  Inv'
<1>1. UNCHANGED <<core_tree, cookie, queued, sched_core_count, sched_core_mutex, user, work,
                  worker, locker,
                  readers, flip, warned, fault, __sched_core_enabled, core_enabled>>
  BY DEF HpFrame, taskVars, useVars
<1>2. (TaskFields /\ LockFields /\ UseFields)'
  BY <1>1 DEF Inv, TaskFields, LockFields, UseFields
<1>3. (Waited /\ Switched)'
  BY <1>1 DEF Inv, Waited, Switched, AllAre
<1>4. FlipLocks'
  BY <1>1 DEF Inv, FlipLocks, UseFields, FlipStates
<1>5. (Counted /\ Mutex /\ Trees)'
  BY <1>1 DEF Inv, Counted, Mutex, Trees, using
<1> QED BY <1>2, <1>3, <1>4, <1>5 DEF Inv

\* A step of hotplug that leaves the leaders and online alone.
LEMMA HpMoves ==
  ASSUME Inv, HpFrame, UNCHANGED <<core, core_task_seq, online>>, CpuFields',
         lock' \in [CPUs -> Lockers \cup {Flipper, Hp, None}], \A c \in CPUs : lock[c] # None => lock'[c] = lock[c],
         flip.pc \notin {"core", "lock"}, HpLocks',
         hp'.pc = "down" => \A c \in online \ {hp'.cpu} : core[c] # hp'.cpu
  PROVE  Inv'
<1>1. UNCHANGED <<locker, __sched_core_enabled, core_enabled>>
  BY DEF HpFrame
<1>2. CoreFields' /\ Places' /\ Leaders'
  BY <1>1 DEF Inv, CoreFields, Places, Placed, Leaders, OneLeader
<1>3. None # Flipper /\ None \notin Lockers
  BY NameAssumption
<1>4. Held'
  <2>1. \A c \in online : rq_lockp(c)' = rq_lockp(c)
    BY <1>1 DEF rq_lockp, sched_core_enabled
  <2> QED BY <1>1, <1>3, <2>1, HeldStays
<1> QED BY <1>2, <1>3, <1>4, HpKeeps

\* A CPU is to go down: the locks of its core are wanted.
LEMMA DeactivateKeeps ==
  ASSUME Inv, NEW c \in CPUs, sched_cpu_deactivate(c), HpFrame
  PROVE  Inv'
<1>1. /\ hp.pc = "idle" /\ flip.pc \notin {"core", "lock"} /\ c \in online
      /\ hp' = [pc |-> "deactivate", cpu |-> c, todo |-> cpu_smt_mask(c), held |-> {}]
      /\ UNCHANGED <<core, core_task_seq, lock, online, present>>
  BY DEF sched_cpu_deactivate, cpus_write_lock
<1>2. /\ present = online /\ present \subseteq CPUs
      /\ lock \in [CPUs -> Lockers \cup {Flipper, Hp, None}] /\ CpuFields
  BY <1>1 DEF Inv, HpLocks, CpuFields, LockFields
<1>3. CpuFields'
  <2>1. hp' \in HpStates
    BY <1>1, <1>2 DEF HpStates, HpPcs, cpu_smt_mask
  <2> QED BY <1>1, <1>2, <2>1 DEF CpuFields
<1>4. HpLocks'
  BY <1>1, <1>2 DEF HpLocks, cpu_smt_mask
<1> QED BY <1>1, <1>2, <1>3, <1>4, HpMoves

\* A CPU is to come up: it is in the masks already.
LEMMA StartingKeeps ==
  ASSUME Inv, NEW c \in CPUs, sched_cpu_starting(c), HpFrame
  PROVE  Inv'
<1>1. /\ hp.pc = "idle" /\ flip.pc \notin {"core", "lock"} /\ c \notin online
      /\ present' = present \cup {c}
      /\ hp' = [pc |-> "starting", cpu |-> c, todo |-> Siblings[c] \cap present', held |-> {}]
      /\ UNCHANGED <<core, core_task_seq, lock, online>>
  BY DEF sched_cpu_starting, cpus_write_lock
<1>2. /\ present = online /\ present \subseteq CPUs
      /\ lock \in [CPUs -> Lockers \cup {Flipper, Hp, None}] /\ CpuFields
  BY <1>1 DEF Inv, HpLocks, CpuFields, LockFields
<1>3. CpuFields'
  <2>1. hp' \in HpStates
    BY <1>1, <1>2 DEF HpStates, HpPcs
  <2> QED BY <1>1, <1>2, <2>1 DEF CpuFields
<1>4. HpLocks'
  BY <1>1, <1>2 DEF HpLocks, cpu_smt_mask
<1> QED BY <1>1, <1>2, <1>3, <1>4, HpMoves

\* The lock of the next CPU of the core.
LEMMA HpLockKeeps ==
  ASSUME Inv, HpLock, HpFrame
  PROVE  Inv'
<1>1. PICK m : m = Min(hp.todo)
  OBVIOUS
<1>2. /\ sched_core_lock(hp.todo, Hp)
      /\ hp' = [hp EXCEPT !.todo = hp.todo \ {m}, !.held = hp.held \cup {m}]
      /\ UNCHANGED <<core, core_task_seq, online, present>>
  BY <1>1 DEF HpLock
<1>3. /\ hp \in HpStates /\ hp.todo \in SUBSET CPUs /\ hp.todo # {} /\ hp.held \subseteq CPUs
      /\ present \subseteq CPUs /\ online \subseteq CPUs
  BY <1>2 DEF Inv, CpuFields, HpStates, sched_core_lock
<1>4. /\ m \in hp.todo /\ lock' \in [CPUs -> Lockers \cup {Flipper, Hp, None}] /\ lock'[m] = Hp
      /\ \A c \in CPUs : lock[c] # None => lock'[c] = lock[c]
  BY <1>1, <1>2, <1>3, CoreLockTakes
<1>5. /\ hp' \in HpStates /\ hp'.pc = hp.pc /\ hp'.cpu = hp.cpu
      /\ hp'.held = hp.held \cup {m} /\ hp'.todo = hp.todo \ {m}
  BY <1>2, <1>3, <1>4 DEF HpStates
<1>6. hp.pc \in {"deactivate", "starting"} /\ flip.pc \notin {"core", "lock"}
  BY <1>3 DEF Inv, HpLocks, FlipLocks
<1>7. HpLocks'
  <2>1. Hp # None /\ \A c \in hp.held : lock[c] = Hp
    BY NameAssumption DEF Inv, HpLocks
  <2>2. \A c \in hp'.held : lock'[c] = Hp
    BY <1>3, <1>4, <1>5, <2>1
  <2>3. HpLocks
    BY DEF Inv
  <2> QED BY <1>2, <1>4, <1>5, <1>6, <2>2, <2>3 DEF HpLocks, cpu_smt_mask
<1>8. CpuFields'
  BY <1>2, <1>3, <1>5 DEF CpuFields
<1> QED BY <1>2, <1>4, <1>5, <1>6, <1>7, <1>8, HpMoves

\* Cores are disjoint, and led by one of their own.
LEMMA Cores ==
  ASSUME Inv, NEW c \in CPUs, NEW t \in CPUs
  PROVE  /\ c \in Siblings[c] /\ Siblings[c] \subseteq CPUs
         /\ t \in Siblings[c] => Siblings[t] = Siblings[c] /\ c \in Siblings[t]
         /\ t \notin Siblings[c] => Siblings[t] \cap Siblings[c] = {}
         /\ t \in online => core[t] \in online \cap Siblings[t]
         /\ t \in online /\ c \in online /\ t \in Siblings[c] => core[t] = core[c]
         /\ t \notin online => core[t] = t
<1>1. /\ c \in Siblings[c] /\ Siblings[c] \subseteq CPUs
      /\ t \in Siblings[c] => Siblings[t] = Siblings[c] /\ c \in Siblings[t]
      /\ t \notin Siblings[c] => Siblings[t] \cap Siblings[c] = {}
  BY SiblingsAssumption
<1> QED BY <1>1 DEF Inv, Leaders, OneLeader

\* A leader about to go hands the lead to a sibling that stays.
LEMMA DeactivatedKeeps ==
  ASSUME Inv, Deactivated, HpFrame
  PROVE  Inv'
<1>1. PICK c : c = hp.cpu
  OBVIOUS
<1>2. PICK M : M = hp.held
  OBVIOUS
<1>3. /\ hp.pc = "deactivate" /\ hp.todo = {} /\ sched_core_cpu_deactivate(c, M)
      /\ lock' = [t \in CPUs |-> IF t \in M THEN None ELSE lock[t]]
      /\ hp' = [hp EXCEPT !.pc = "down", !.held = {}]
      /\ UNCHANGED <<online, present, locker, __sched_core_enabled, core_enabled>>
  BY <1>1, <1>2 DEF Deactivated, sched_core_unlock, HpFrame
<1>4. /\ hp \in HpStates /\ c \in online /\ present = online /\ online \subseteq CPUs
      /\ M = Siblings[c] \cap online
      /\ \A t \in M : lock[t] = Hp
      /\ lock \in [CPUs -> Lockers \cup {Flipper, Hp, None}] /\ flip.pc \notin {"core", "lock"}
      /\ core \in [CPUs -> CPUs] /\ core_task_seq \in [CPUs -> 0 .. SeqMod - 1]
  BY <1>1, <1>2, <1>3 DEF Inv, CpuFields, HpLocks, FlipLocks, LockFields, CoreFields, cpu_smt_mask
<1>5. /\ hp' \in HpStates /\ hp'.pc = "down" /\ hp'.cpu = c /\ hp'.held = {} /\ hp'.todo = {}
  BY <1>1, <1>3, <1>4 DEF HpStates, HpPcs
<1>6. c \in CPUs /\ Flipper # Hp /\ Hp \notin Lockers
  BY <1>4, NameAssumption
<1>7. /\ core' \in [CPUs -> CPUs] /\ core_task_seq' \in [CPUs -> 0 .. SeqMod - 1] /\ Leaders'
      /\ \A t \in CPUs \ M : core'[t] = core[t]
  <2>1. CASE M = {c} \/ core[c] # c
    <3>1. core' = core /\ core_task_seq' = core_task_seq
      BY <2>1, <1>3 DEF sched_core_cpu_deactivate
    <3>2. \A t \in online \ {c} : core[t] # c
      <4> SUFFICES ASSUME NEW t \in online, t # c, core[t] = c PROVE FALSE
        OBVIOUS
      <4>1. t \in CPUs /\ c \in Siblings[t]
        BY <1>4, <1>6, Cores
      <4>2. t \in M /\ core[c] = core[t]
        BY <1>4, <1>6, <4>1, Cores
      <4> QED BY <2>1, <4>2
    <3>3. Leaders'
      BY <1>3, <1>5, <3>1, <3>2 DEF Inv, Leaders, OneLeader
    <3> QED BY <1>4, <3>1, <3>3
  <2>2. CASE ~(M = {c} \/ core[c] # c)
    <3>1. PICK r : r = Min(M \ {c})
      OBVIOUS
    <3>2. c \in M /\ M \ {c} # {} /\ M \ {c} \in SUBSET Nat
      <4>1. c \in M /\ M \subseteq CPUs
        BY <1>4, <1>6, Cores
      <4>2. CPUs \subseteq Nat
        BY CpuAssumption
      <4> QED BY <2>2, <4>1, <4>2
    <3>3. r \in M /\ r # c /\ r \in CPUs
      BY <3>1, <3>2, <1>4, FirstCpu
    <3>4. /\ core_task_seq' = [core_task_seq EXCEPT ![r] = core_task_seq[c]]
          /\ core' = [t \in CPUs |-> IF t \in M THEN r ELSE core[t]]
      BY <2>2, <3>1, <1>3 DEF sched_core_cpu_deactivate
    <3>5. \A t \in online : t \in M => core'[t] = r /\ Siblings[t] = Siblings[c]
      BY <1>4, <1>6, <3>4, Cores
    <3>6. \A t \in online : t \notin M => core'[t] = core[t] /\ t \notin Siblings[c] /\ Siblings[t] \cap M = {}
      BY <1>4, <1>6, <3>4, Cores
    <3>7. OneLeader'
      <4> SUFFICES ASSUME NEW t \in online
                   PROVE  /\ core'[t] \in online \cap Siblings[t]
                          /\ \A d \in online \cap Siblings[t] : core'[t] = core'[d]
        BY <1>3 DEF OneLeader
      <4>1. CASE t \in M
        BY <4>1, <1>4, <3>3, <3>5
      <4>2. CASE t \notin M
        <5>1. core'[t] = core[t] /\ core[t] \in online \cap Siblings[t]
          BY <4>2, <1>4, <3>6, Cores
        <5>2. ASSUME NEW d \in online \cap Siblings[t] PROVE core'[d] = core[t]
          <6>1. d \notin M /\ core[d] = core[t]
            BY <4>2, <1>4, <3>6, <5>2, Cores
          <6> QED BY <6>1, <3>6, <5>2
        <5> QED BY <5>1, <5>2
      <4> QED BY <4>1, <4>2
    <3>8. \A t \in CPUs \ online : core'[t] = t
      BY <1>4, <3>4, Cores
    <3>9. \A t \in online \ {c} : core'[t] # c
      BY <1>4, <1>6, <3>2, <3>3, <3>5, <3>6, Cores
    <3>10. Leaders'
      BY <1>3, <1>5, <3>7, <3>8, <3>9 DEF Leaders
    <3> QED BY <1>4, <1>6, <3>3, <3>4, <3>10
  <2> QED BY <2>1, <2>2
<1>8. CoreFields' /\ CpuFields' /\ Places' /\ HpLocks'
  BY <1>3, <1>4, <1>5, <1>7 DEF Inv, CoreFields, CpuFields, Places, Placed, HpLocks
<1>9. Held'
  <2>1. \A t \in CPUs : lock[t] \in Lockers => lock'[t] = lock[t]
    BY <1>3, <1>4, <1>6
  <2>2. \A t \in online : lock[rq_lockp(t)] \in Lockers => rq_lockp(t)' = rq_lockp(t)
    <3> SUFFICES ASSUME NEW t \in online,
    lock[rq_lockp(t)] \in Lockers PROVE rq_lockp(t)' = rq_lockp(t)
      OBVIOUS
    <3>1. t \notin M
      BY <1>4, <1>6, LockInCore
    <3>2. core'[t] = core[t]
      BY <1>4, <1>7, <3>1
    <3> QED BY <1>3, <3>2 DEF rq_lockp, sched_core_enabled
  <2> QED BY <1>3, <2>1, <2>2, HeldStays
<1>10. lock' \in [CPUs -> Lockers \cup {Flipper, Hp, None}] /\ \A t \in CPUs : lock[t] = Flipper => lock'[t] = Flipper
  BY <1>3, <1>4, <1>6
<1> QED BY <1>4, <1>7, <1>8, <1>9, <1>10, HpKeeps

\* A CPU that comes joins the leader of its core.
LEMMA StartedKeeps ==
  ASSUME Inv, Started, HpFrame
  PROVE  Inv'
<1>1. PICK c : c = hp.cpu
  OBVIOUS
<1>2. PICK M : M = hp.held
  OBVIOUS
<1>3. /\ hp.pc = "starting" /\ hp.todo = {} /\ sched_core_cpu_starting(c, M)
      /\ lock' = [t \in CPUs |-> IF t \in M THEN None ELSE lock[t]]
      /\ hp' = [pc |-> "idle", cpu |-> None, todo |-> {}, held |-> {}] /\ online' = online \cup {c}
      /\ UNCHANGED <<core_task_seq, present, locker, __sched_core_enabled, core_enabled>>
  BY <1>1, <1>2 DEF Started, sched_core_unlock, HpFrame, NoHp
<1>4. /\ c \in CPUs /\ c \notin online /\ present = online \cup {c} /\ online \subseteq CPUs
      /\ M = Siblings[c] \cap present /\ \A t \in M : lock[t] = Hp
      /\ lock \in [CPUs -> Lockers \cup {Flipper, Hp, None}] /\ flip.pc \notin {"core", "lock"}
      /\ core \in [CPUs -> CPUs] /\ core_task_seq \in [CPUs -> 0 .. SeqMod - 1]
  BY <1>1, <1>2, <1>3 DEF Inv, CpuFields, HpLocks, FlipLocks, LockFields, CoreFields, cpu_smt_mask
<1>5. Flipper # Hp /\ Hp \notin Lockers /\ hp' \in HpStates
  BY <1>3, NameAssumption DEF HpStates, HpPcs
<1> DEFINE leaders == {t \in M \ {c} : core[t] = t}
<1>6. core' = IF leaders = {} THEN core ELSE [core EXCEPT ![c] = Min(leaders)]
  BY <1>3 DEF sched_core_cpu_starting
<1>7. \A t \in leaders : t \in online /\ t \in Siblings[c] /\ core[t] = t
  BY <1>4
<1>8. \A d \in online \cap Siblings[c] : core[d] \in leaders
  <2> SUFFICES ASSUME NEW d \in online \cap Siblings[c] PROVE core[d] \in leaders
    OBVIOUS
  <2>1. d \in CPUs /\ core[d] \in online \cap Siblings[d] /\ Siblings[d] = Siblings[c]
    BY <1>4, Cores
  <2>2. core[core[d]] = core[d]
    BY <1>4, <2>1, Cores
  <2> QED BY <1>4, <2>1, <2>2
<1>9. leaders = {} => online \cap Siblings[c] = {} /\ core' = core /\ core[c] = c
  BY <1>4, <1>6, <1>8, Cores
<1>10. leaders # {} => Min(leaders) \in leaders
  BY <1>4, FirstCpu, CpuAssumption
<1>11. \A d \in online \cap Siblings[c], t \in leaders : core[d] = t
  BY <1>4, <1>7, Cores
<1> HIDE DEF leaders
<1>12. \A t \in CPUs \ {c} : core'[t] = core[t]
  BY <1>4, <1>6
<1>13. core'[c] \in online' \cap Siblings[c] /\ \A d \in online \cap Siblings[c] : core'[c] = core[d]
  <2>1. CASE leaders = {}
    BY <2>1, <1>3, <1>4, <1>9, Cores
  <2>2. CASE leaders # {}
    <3>1. core'[c] = Min(leaders)
      BY <2>2, <1>4, <1>6
    <3> QED BY <2>2, <3>1, <1>3, <1>4, <1>7, <1>10, <1>11
  <2> QED BY <2>1, <2>2
<1>14. OneLeader'
  <2> SUFFICES ASSUME NEW t \in online'
               PROVE  /\ core'[t] \in online' \cap Siblings[t]
                      /\ \A d \in online' \cap Siblings[t] : core'[t] = core'[d]
    BY DEF OneLeader
  <2>1. CASE t = c
    <3>1. \A d \in online' \cap Siblings[c] : core'[d] = core'[c]
      BY <1>3, <1>4, <1>12, <1>13
    <3> QED BY <2>1, <3>1, <1>13
  <2>2. CASE t # c
    <3>1. t \in online /\ t \in CPUs /\ core'[t] = core[t] /\ core[t] \in online \cap Siblings[t]
      BY <2>2, <1>3, <1>4, <1>12, Cores
    <3>2. ASSUME NEW d \in online' \cap Siblings[t] PROVE core'[d] = core[t]
      <4>1. CASE d = c
        <5>1. t \in online \cap Siblings[c]
          BY <3>1, <3>2, <4>1, <1>4, Cores
        <5> QED BY <4>1, <5>1, <1>13
      <4>2. CASE d # c
        <5>1. d \in online /\ d \in CPUs /\ core'[d] = core[d]
          BY <4>2, <1>3, <1>4, <1>12
        <5> QED BY <3>1, <5>1, <3>2, Cores
      <4> QED BY <4>1, <4>2
    <3> QED BY <3>1, <3>2, <1>3
  <2> QED BY <2>1, <2>2
<1>15. core' \in [CPUs -> CPUs] /\ Leaders'
  <2>1. core' \in [CPUs -> CPUs]
    BY <1>4, <1>6, <1>7, <1>10
  <2>2. \A t \in CPUs \ online' : core'[t] = t
    BY <1>3, <1>4, <1>12, Cores
  <2> QED BY <1>3, <1>14, <2>1, <2>2 DEF Leaders
<1>16. CoreFields' /\ CpuFields' /\ HpLocks'
  BY <1>3, <1>4, <1>5, <1>15 DEF Inv, CoreFields, CpuFields, HpLocks
<1>17. Places'
  BY <1>3 DEF Inv, Places, Placed
<1>18. Held'
  <2>1. \A t \in CPUs : lock[t] \in Lockers => lock'[t] = lock[t]
    BY <1>3, <1>4, <1>5
  <2>2. \A t \in online : rq_lockp(t)' = rq_lockp(t)
    BY <1>3, <1>4, <1>12 DEF rq_lockp, sched_core_enabled
  <2> QED BY <1>3, <2>1, <2>2, HeldStays
<1>19. lock' \in [CPUs -> Lockers \cup {Flipper, Hp, None}] /\ \A t \in CPUs : lock[t] = Flipper => lock'[t] = Flipper
  BY <1>3, <1>4, <1>5
<1> QED BY <1>4, <1>15, <1>16, <1>17, <1>18, <1>19, HpKeeps

\* The operation is reversed.
LEMMA ActivateKeeps ==
  ASSUME Inv, sched_cpu_activate, HpFrame
  PROVE  Inv'
<1>1. /\ hp.pc = "down" /\ hp' = [pc |-> "idle", cpu |-> None, todo |-> {}, held |-> {}]
      /\ UNCHANGED <<core, core_task_seq, lock, online, present>>
  BY DEF sched_cpu_activate, NoHp
<1>2. /\ present = online /\ lock \in [CPUs -> Lockers \cup {Flipper, Hp, None}]
      /\ flip.pc \notin {"core", "lock"}
      /\ CpuFields
  BY <1>1 DEF Inv, HpLocks, CpuFields, LockFields, FlipLocks
<1>3. CpuFields' /\ HpLocks'
  BY <1>1, <1>2 DEF CpuFields, HpLocks, HpStates, HpPcs
<1> QED BY <1>1, <1>2, <1>3, HpMoves

\* The CPU is gone: nobody is in a section without preemption, and nobody is led by it.
LEMMA DyingKeeps ==
  ASSUME Inv, sched_core_cpu_dying, HpFrame
  PROVE  Inv'
<1>1. PICK c : c = hp.cpu
  OBVIOUS
<1>2. /\ hp.pc = "down" /\ hp' = [pc |-> "idle", cpu |-> None, todo |-> {}, held |-> {}]
      /\ \A l \in Lockers : locker[l].pc = "idle"
      /\ core' = [core EXCEPT ![c] = c] /\ online' = online \ {c} /\ present' = present \ {c}
      /\ UNCHANGED <<core_task_seq, lock, locker, __sched_core_enabled, core_enabled>>
  BY <1>1 DEF sched_core_cpu_dying, NoHp, HpFrame
<1>3. /\ c \in CPUs /\ c \in online /\ present = online /\ online \subseteq CPUs
      /\ core \in [CPUs -> CPUs]
      /\ lock \in [CPUs -> Lockers \cup {Flipper, Hp, None}] /\ flip.pc \notin {"core", "lock"}
      /\ \A t \in online \ {c} : core[t] # c
  BY <1>1, <1>2 DEF Inv, CpuFields, HpLocks, FlipLocks, LockFields, CoreFields, Leaders
<1>4. CoreFields' /\ CpuFields' /\ HpLocks'
  BY <1>2, <1>3 DEF Inv, CoreFields, CpuFields, HpLocks, HpStates, HpPcs
<1>5. Places' /\ Held'
  BY <1>2 DEF Inv, Places, Held, Placed, Holds
<1>6. OneLeader'
  BY <1>2, <1>3 DEF Inv, Leaders, OneLeader
<1>7. Leaders'
  BY <1>2, <1>3, <1>6 DEF Inv, Leaders
<1> QED BY <1>2, <1>3, <1>4, <1>5, <1>7, HpKeeps

\* Every step of hotplug.
LEMMA HotplugStepKeeps ==
  ASSUME Inv, HotplugStep
  PROVE  Inv'
BY DeactivateKeeps, StartingKeeps, HpLockKeeps, DeactivatedKeeps, StartedKeeps, ActivateKeeps,
   DyingKeeps DEF HotplugStep, HpFrame

-----------------------------------------------------------------------------
(* The invariant holds, and with it what the run checks.                   *)

\* The first state.
LEMMA InitInv ==
  ASSUME Init
  PROVE  Inv
<1>1. \A c \in CPUs : Min(Siblings[c]) \in Siblings[c] /\ Siblings[c] \subseteq CPUs
  BY FirstCpu, SiblingsAssumption, CpuAssumption
<1>2. CoreFields /\ TaskFields /\ LockFields /\ CpuFields /\ UseFields
  <2>1. <<>> \in Seq(CPUs)
    OBVIOUS
  <2>2. NoLocker \in LockerStates
    BY <2>1 DEF NoLocker, LockerStates, LockerPcs
  <2>6. NoFlip \in FlipStates /\ NoHp \in HpStates
    BY DEF NoFlip, NoHp, FlipStates, FlipPcs, HpStates, HpPcs, Names
  <2>3. 0 \in 0 .. SeqMod - 1
    BY UserAssumption
  <2>4. CoreFields /\ TaskFields /\ CpuFields
    BY <1>1, <2>2, <2>3, <2>6 DEF Init, CoreFields, TaskFields, CpuFields
  <2>5. LockFields /\ UseFields
    BY <2>2, <2>6 DEF Init, LockFields, UseFields, UserStates, Names
  <2> QED BY <2>4, <2>5
<1>3. Places /\ Held
  BY DEF Init, Places, Held, Placed, Holds, NoLocker
<1>4. Waited /\ Switched /\ FlipLocks /\ HpLocks
  BY DEF Init, Waited, Switched, AllAre, FlipLocks, HpLocks, NoFlip, NoHp, NoLocker
<1>5. Leaders
  <2>1. \A c \in CPUs : \A d \in Siblings[c] : core[c] = core[d] /\ core[c] \in Siblings[c]
    BY <1>1, SiblingsAssumption DEF Init
  <2>2. online = CPUs /\ hp.pc = "idle" /\ \A c \in CPUs : Siblings[c] \subseteq CPUs
    BY <1>1 DEF Init, NoHp
  <2>3. \A c \in CPUs : c \in Siblings[c]
    BY SiblingsAssumption
  <2>4. OneLeader
    BY <2>1, <2>2, <2>3 DEF OneLeader
  <2> QED BY <2>2, <2>4 DEF Leaders
<1>6. Counted /\ Trees
  <2>1. using = {}
    BY DEF using, Init
  <2> QED BY <2>1, FS_EmptySet DEF Init, Counted, Trees, One, NoFlip
<1>7. Mutex
  BY NameAssumption DEF Init, Mutex, NoFlip
<1> QED BY <1>2, <1>3, <1>4, <1>5, <1>6, <1>7 DEF Inv

\* Every step.
LEMMA NextInv ==
  ASSUME Inv, [Next]_vars
  PROVE  Inv'
<1>1. CASE UNCHANGED vars
  <2>1. UNCHANGED <<__sched_core_enabled, core_enabled, core, core_task_seq, core_tree, lock,
                    online, present, locker,
                    readers, sched_core_count, sched_core_mutex, user, cookie, queued, work,
                    worker, flip, hp,
                    warned, fault>>
    BY <1>1 DEF vars, coreVars, taskVars, useVars, cpuVars
  <2>2. (CoreFields /\ TaskFields /\ LockFields /\ CpuFields /\ UseFields)'
    BY <2>1 DEF Inv, CoreFields, TaskFields, LockFields, CpuFields, UseFields
  <2>3. (Places /\ Waited /\ Switched /\ FlipLocks /\ HpLocks)'
    BY <2>1 DEF Inv, Places, Placed, Waited, Switched, AllAre, FlipLocks, HpLocks, cpu_smt_mask
  <2>4. Held'
    BY <2>1 DEF Inv, Held, Holds, rq_lockp, sched_core_enabled
  <2>5. (Leaders /\ Counted /\ Mutex /\ Trees)'
    BY <2>1 DEF Inv, Leaders, OneLeader, Counted, Mutex, Trees, using
  <2> QED BY <2>2, <2>3, <2>4, <2>5 DEF Inv
<1>2. CASE fault = "none" /\ \E l \in Lockers : LockStep(l) \/ QueueStep(l)
  BY <1>2, LockStepKeeps, QueueStepKeeps
<1>3. CASE \E u \in Users : UseStep(sched_core_get(u) \/ GetLock(u) \/ GetAdd(u) \/ sched_core_put(u))
  BY <1>3, GetKeeps, GetLockKeeps, GetAddKeeps, PutKeeps DEF UseStep, UseFrame
<1>4. CASE UseStep(WorkStart \/ WorkDec \/ WorkLock)
  BY <1>4, WorkStartKeeps, WorkDecKeeps, WorkLockKeeps DEF UseStep, UseFrame
<1>5. CASE FlipStep
  BY <1>5, FlipStepKeeps
<1>6. CASE HotplugStep
  BY <1>6, HotplugStepKeeps
<1> QED BY <1>1, <1>2, <1>3, <1>4, <1>5, <1>6 DEF Next

\* The inductive invariant holds in every reachable state.
THEOREM Invariance == Spec => []Inv
<1>1. Init => Inv
  BY InitInv
<1>2. Inv /\ [Next]_vars => Inv'
  BY NextInv
<1> QED BY <1>1, <1>2, PTL DEF Spec

\* Every variable has its type; at most one reference more than there are users is counted.
THEOREM TypeCorrect == Spec => []TypeOK
<1>1. ASSUME Inv PROVE TypeOK
  <2>1. CoreFields /\ TaskFields /\ LockFields /\ CpuFields /\ UseFields /\ HpLocks /\ Counted
    BY <1>1 DEF Inv
  <2>2. sched_core_count \in 0 .. Cardinality(Users) + 1
    <3>1. IsFiniteSet(Users) /\ using \subseteq Users
      BY UserAssumption DEF using
    <3>2. /\ Cardinality(Users) \in Nat /\ Cardinality(using) \in Nat
          /\ Cardinality(using) <= Cardinality(Users)
      BY <3>1, FS_Subset, FS_CardinalityType
    <3> QED BY <2>1, <3>2 DEF Counted, One
  <2>3. online \subseteq present
    BY <2>1 DEF HpLocks
  <2> QED BY <2>1, <2>2, <2>3
             DEF TypeOK, CoreFields, TaskFields, LockFields, CpuFields, UseFields, UserStates
<1> QED BY <1>1, Invariance, PTL

\* raw_spin_rq_lock(), double_rq_lock() and _double_lock_balance() end with the lock the run queue
\* has, and it stays the one until the unlock, whatever is switched and whoever leads meanwhile.
THEOREM HoldsTheLock == Spec => []LocksTheSame
<1>1. Inv => LocksTheSame
  BY DEF Inv, Held, Holds, LocksTheSame
<1> QED BY <1>1, Invariance, PTL

\* No path unlocks a lock that is free or another's.
UnlocksItsOwn == fault # "unlock"

\* raw_spin_rq_unlock() and double_unlock_balance() find the lock that was locked.
THEOREM UnlocksIt == Spec => []UnlocksItsOwn
<1>1. Inv => UnlocksItsOwn
  BY DEF Inv, LockFields, UnlocksItsOwn
<1> QED BY <1>1, Invariance, PTL

\* No two paths are under the lock of one run queue, nor of two run queues of a core with core
\* scheduling on.
CoreExclusion ==
    \A l, m \in Lockers : \A c \in locker[l].got, d \in locker[m].got :
       c = d \/ (sched_core_enabled(c) /\ sched_core_enabled(d) /\ d \in Siblings[c]) => l = m

\* What the shared lock of a core is for: the siblings' run queues have one owner.
THEOREM CoresExclude == Spec => []CoreExclusion
<1>1. ASSUME Inv, NEW l \in Lockers, NEW m \in Lockers, NEW c \in locker[l].got, NEW d \in locker[m].got,
             c = d \/ (sched_core_enabled(c) /\ sched_core_enabled(d) /\ d \in Siblings[c])
      PROVE  l = m
  <2>1. /\ lock[rq_lockp(c)] = l /\ lock[rq_lockp(d)] = m /\ c \in CPUs /\ d \in CPUs
        /\ c \in online /\ d \in online
    BY <1>1, LockerIs DEF Holds, Placed
  <2>2. rq_lockp(c) = rq_lockp(d)
    BY <1>1, <2>1, Cores DEF rq_lockp
  <2> QED BY <2>1, <2>2
<1>2. Inv => CoreExclusion
  BY <1>1 DEF CoreExclusion
<1> QED BY <1>2, Invariance, PTL

\* sched_core_get() returns with core scheduling on for every CPU, and it is on until the reference
\* is put; sched_core_assert_empty() never warns.
THEOREM StaysEnabled == Spec => []EnabledWhileUsed
<1>1. ASSUME Inv PROVE EnabledWhileUsed
  <2>1. ASSUME NEW u \in Users, user[u] = "in"
        PROVE  __sched_core_enabled /\ \A c \in CPUs : core_enabled[c]
    <3>1. sched_core_count > 0
      BY <1>1, <2>1, References DEF Inv, Counted, One
    <3>2. flip.pc = "idle" /\ __sched_core_enabled
      BY <1>1, <3>1 DEF Inv, Counted
    <3> QED BY <1>1, <3>2 DEF Inv, Switched, AllAre
  <2> QED BY <1>1, <2>1 DEF EnabledWhileUsed, Inv, Trees
<1> QED BY <1>1, Invariance, PTL

\* sched_core_cpu_starting(), sched_core_cpu_deactivate() and sched_core_cpu_dying() leave every
\* core with one leader that is online.
THEOREM LedByOne == Spec => []OneLeader
<1>1. Inv => OneLeader
  BY DEF Inv, Leaders
<1> QED BY <1>1, Invariance, PTL
=============================================================================
