-------------------------- MODULE MmLifetimeProofs --------------------------
(***************************************************************************)
(* Every mm_struct lives as long as somebody uses or borrows it, for any   *)
(* number of CPUs, tasks and address spaces.                               *)
(***************************************************************************)
EXTENDS MmLifetime, FiniteSetTheorems, TLAPS

\* All fields but the bounds of the counters.
Fields ==
    /\ st \in [Tasks -> {"absent", "new", "ready", "running", "dead"}]
    /\ maker \in [Tasks -> Tasks \cup {None}] /\ released \subseteq Tasks /\ kthread \subseteq Tasks
    /\ mm \in [Tasks -> MMs \cup {None}] /\ active_mm \in [Tasks -> MMs \cup {None}]
    /\ curr \in [CPUs -> Tasks] /\ prev_mm \in [CPUs -> MMs \cup {None}]
    /\ mm_users \in [MMs -> Int] /\ mm_count \in [MMs -> Int]
    /\ mmst \in [MMs -> {"free", "used", "exited"}] /\ work \in [MMs -> {"none", "mmput", "mmdrop"}]
    /\ owner \in [MMs -> Tasks \cup {None}] /\ observed \subseteq MMs /\ oom \subseteq MMs
    /\ vfork_done \in [Tasks -> Tasks \cup {None}] /\ waiting \in [Tasks -> Tasks \cup {None}]
    /\ done \subseteq Tasks /\ tid \in [Tasks -> {"none", "set", "cleared", "stale", "kept"}]

\* A task that runs, or has exited and is still to be switched away from, is on one CPU.
OnCpu ==
    /\ \A c \in CPUs : st[curr[c]] \in {"running", "dead"}
    /\ \A t \in Tasks : st[t] \in {"running", "dead"} => \E c \in CPUs : curr[c] = t
    /\ \A c, d \in CPUs : curr[c] = curr[d] => c = d

\* Where a task is in its life.
Stations ==
    /\ \A u \in Tasks : maker[u] # None => st[u] = "new"
    /\ \A t \in released : st[t] \in {"ready", "running"} /\ (t \in kthread => mm[t] = None)

\* A task with an mm runs on it; one without borrows, and only while it is on a CPU.
Spaces ==
    /\ \A t \in Tasks : mm[t] # None =>
         /\ mm[t] # init_mm /\ active_mm[t] = mm[t]
         /\ st[t] \in {"new", "ready", "running"}
         /\ st[t] = "new" => t \notin kthread
    /\ \A t \in Tasks : mm[t] = None /\ active_mm[t] # None => st[t] \in {"running", "dead"}
    /\ \A c \in CPUs : active_mm[curr[c]] # None
    /\ init_mm \notin observed \cup oom

\* How many x in S have f[x] = v.
Num(S, f, v) == Cardinality({x \in S : f[x] = v})

\* f and g agree on S but for the elements of T.
Agree(S, T, f, g) == \A x \in S \ T : g[x] = f[x]

\* How many use m, how many borrow it, and on how many CPUs a switch away from a borrower of m
\* is not finished.
using == [m \in MMs |-> Num(Tasks, mm, m)]
borrowed == [t \in Tasks |-> IF mm[t] = None \/ t \in kthread THEN active_mm[t] ELSE None]
borrowing == [m \in MMs |-> Num(Tasks, borrowed, m)]
switching == [m \in MMs |-> Num(CPUs, prev_mm, m)]
One(P) == IF P THEN 1 ELSE 0
Is(v, w) == IF v = w THEN 1 ELSE 0

\* Every reference has a holder; init_mm has one user for good.
Users(m) == using[m] + One(m \in observed) + One(m = init_mm)
References(m) ==
    One(mm_users[m] > 0 \/ work[m] = "mmput") + borrowing[m] + switching[m] + One(m \in oom)

Counted == \A m \in MMs : mm_users[m] = Users(m) /\ mm_count[m] = References(m)

\* The stages of an mm_struct.
Stages ==
    \A m \in MMs :
      /\ mmst[m] = "used" <=> mm_users[m] > 0 \/ work[m] = "mmput"
      /\ mmst[m] = "free" <=> mm_count[m] = 0 /\ work[m] = "none"
      /\ work[m] = "mmput" => mm_users[m] = 0
      /\ work[m] = "mmdrop" => mm_count[m] = 0

\* The owner of an address space uses it.
Owners ==
    \A m \in MMs : mmst[m] = "used" /\ owner[m] # None =>
      mm[owner[m]] = m /\ owner[m] \notin kthread

\* A child that will complete has a parent that waits for it.
Vforks ==
    /\ \A t \in Tasks : vfork_done[t] # None =>
         waiting[vfork_done[t]] = t /\ st[t] \in {"ready", "running"} /\ t \notin released
    /\ \A t \in Tasks : waiting[t] # None => (t \in done <=> vfork_done[waiting[t]] # t)

Inv ==
    /\ Fields /\ OnCpu /\ Stations /\ Spaces /\ Counted /\ Stages /\ Owners /\ Vforks

-----------------------------------------------------------------------------
(* Counting.                                                               *)

\* If a function changes at x only, the number of arguments with value v
\* changes by what x brings and takes.
LEMMA CountMoves ==
  ASSUME NEW S, IsFiniteSet(S), NEW f, NEW g, NEW x \in S, NEW v,
         Agree(S, {x}, f, g)
  PROVE  Num(S, g, v) = Num(S, f, v) + Is(g[x], v) - Is(f[x], v)
<1> DEFINE F == {y \in S : f[y] = v}
           G == {y \in S : g[y] = v}
           R == {y \in S : y # x /\ f[y] = v}
<1>1. IsFiniteSet(R)
  BY FS_Subset
<1>2. x \notin R
  OBVIOUS
<1>3. F = IF f[x] = v THEN R \cup {x} ELSE R
  OBVIOUS
<1>4. G = IF g[x] = v THEN R \cup {x} ELSE R
  BY DEF Agree
<1>5. Cardinality(R) \in Nat /\ Cardinality(R \cup {x}) = Cardinality(R) + 1
  BY <1>1, <1>2, FS_CardinalityType, FS_AddElement
<1> HIDE DEF F, G, Num, R
<1>6. Cardinality(F) = Cardinality(R) + Is(f[x], v)
  BY <1>3, <1>5 DEF Is
<1>7. Cardinality(G) = Cardinality(R) + Is(g[x], v)
  BY <1>4, <1>5 DEF Is
<1>8. Is(f[x], v) \in Int /\ Is(g[x], v) \in Int
  BY DEF Is
<1> QED BY <1>5, <1>6, <1>7, <1>8 DEF F, G, Num

\* The same for a change at two arguments.
LEMMA CountPasses ==
  ASSUME NEW S, IsFiniteSet(S), NEW f, NEW g, NEW x \in S, NEW z \in S, x # z, NEW v,
         NEW T, T = {x, z}, Agree(S, T, f, g)
  PROVE  Num(S, g, v) = Num(S, f, v) + Is(g[x], v) - Is(f[x], v)
                                     + Is(g[z], v) - Is(f[z], v)
<1> DEFINE e == [y \in S |-> IF y = x THEN g[y] ELSE f[y]]
<1>1. PICK h : h = e
  OBVIOUS
<1>2. h[x] = g[x] /\ h[z] = f[z] /\ (\A y \in S : y # x => h[y] = f[y])
      /\ \A y \in S : y # z => g[y] = h[y]
  BY <1>1 DEF Agree
<1>3. IsFiniteSet(S) /\ Num(S, f, v) \in Nat
  <2>1. IsFiniteSet({y \in S : f[y] = v})
    BY FS_Subset
  <2> QED BY <2>1, FS_CardinalityType DEF Num
<1>4. Num(S, h, v) = Num(S, f, v) + Is(h[x], v) - Is(f[x], v)
  <2>1. Agree(S, {x}, f, h)
    BY <1>2 DEF Agree
  <2> QED BY <1>3, <2>1, CountMoves
<1>5. Num(S, g, v) = Num(S, h, v) + Is(g[z], v) - Is(h[z], v)
  <2>1. Agree(S, {z}, h, g)
    BY <1>2 DEF Agree
  <2> QED BY <1>3, <2>1, CountMoves
<1> QED BY <1>2, <1>3, <1>4, <1>5 DEF Is

\* A count is a natural number; it is positive when there is one, more than 1 when there are two.
LEMMA CountIsNat ==
  ASSUME NEW S, IsFiniteSet(S), NEW f, NEW v
  PROVE  /\ Num(S, f, v) \in Nat /\ Num(S, f, v) <= Cardinality(S)
         /\ \A x \in S : f[x] = v => Num(S, f, v) > 0
         /\ \A x, z \in S : f[x] = v /\ f[z] = v /\ x # z => Num(S, f, v) > 1
<1> DEFINE F == {y \in S : f[y] = v}
<1>1. IsFiniteSet(F) /\ Cardinality(F) \in Nat /\ Cardinality(F) <= Cardinality(S)
  BY FS_Subset, FS_CardinalityType
<1>2. ASSUME NEW x \in F PROVE Cardinality(F) > 0
  BY <1>1, <1>2, FS_EmptySet
<1>3. ASSUME NEW x \in F, NEW z \in F, x # z PROVE Cardinality(F) > 1
  <2> DEFINE G == F \ {x}
  <2>1. IsFiniteSet(G) /\ Cardinality(G) = Cardinality(F) - 1
    BY <1>1, <1>3, FS_RemoveElement
  <2>2. G # {}
    BY <1>3
  <2> HIDE DEF G
  <2>3. Cardinality(G) # 0 /\ Cardinality(G) \in Nat
    BY <2>1, <2>2, FS_EmptySet, FS_CardinalityType
  <2> QED BY <1>1, <2>1, <2>3
<1> QED BY <1>1, <1>2, <1>3 DEF Num

\* The counts are natural numbers, and whoever is counted makes a difference.
LEMMA Holders ==
  ASSUME Fields
  PROVE  /\ \A m \in MMs : /\ using[m] \in Nat /\ borrowing[m] \in Nat /\ switching[m] \in Nat
                           /\ using[m] <= Cardinality(Tasks) /\ borrowing[m] <= Cardinality(Tasks)
                           /\ switching[m] <= Cardinality(CPUs)
         /\ \A t \in Tasks : mm[t] # None => using[mm[t]] > 0
         /\ \A t, u \in Tasks : mm[t] # None /\ mm[u] = mm[t] /\ u # t => using[mm[t]] > 1
         /\ \A t \in Tasks : borrowed[t] # None => borrowing[borrowed[t]] > 0
         /\ \A c \in CPUs : prev_mm[c] # None => switching[prev_mm[c]] > 0
<1>1. IsFiniteSet(Tasks) /\ IsFiniteSet(CPUs)
  BY TaskAssumption, CpuAssumption
<1>2. /\ \A t \in Tasks : mm[t] \in MMs \cup {None} /\ borrowed[t] \in MMs \cup {None}
      /\ \A c \in CPUs : prev_mm[c] \in MMs \cup {None}
  BY DEF Fields, borrowed
<1>3. ASSUME NEW m \in MMs
      PROVE  /\ using[m] = Num(Tasks, mm, m) /\ borrowing[m] = Num(Tasks, borrowed, m)
             /\ switching[m] = Num(CPUs, prev_mm, m)
             /\ using[m] \in Nat /\ borrowing[m] \in Nat /\ switching[m] \in Nat
             /\ using[m] <= Cardinality(Tasks) /\ borrowing[m] <= Cardinality(Tasks)
             /\ switching[m] <= Cardinality(CPUs)
  BY <1>1, CountIsNat DEF using, borrowing, switching
<1> QED BY <1>1, <1>2, <1>3, CountIsNat

\* The users, the borrowers and the switches after one task or CPU has changed what it holds.
LEMMA UserMoves ==
  ASSUME NEW t \in Tasks, Agree(Tasks, {t}, mm, mm')
  PROVE  \A m \in MMs : using'[m] = using[m] + Is(mm'[t], m) - Is(mm[t], m)
<1>1. IsFiniteSet(Tasks)
  BY TaskAssumption
<1>2. \A m : Num(Tasks, mm', m)
               = Num(Tasks, mm, m) + Is(mm'[t], m) - Is(mm[t], m)
  BY <1>1, CountMoves
<1> QED BY <1>2 DEF using

LEMMA BorrowerMoves ==
  ASSUME NEW t \in Tasks, Agree(Tasks, {t}, borrowed, borrowed')
  PROVE  \A m \in MMs : borrowing'[m] = borrowing[m] + Is(borrowed'[t], m) - Is(borrowed[t], m)
<1>1. IsFiniteSet(Tasks)
  BY TaskAssumption
<1>2. \A m : Num(Tasks, borrowed', m)
               = Num(Tasks, borrowed, m) + Is(borrowed'[t], m) - Is(borrowed[t], m)
  BY <1>1, CountMoves
<1> QED BY <1>2 DEF borrowing

LEMMA BorrowerPasses ==
  ASSUME NEW t \in Tasks, NEW u \in Tasks, t # u,
         NEW T, T = {t, u}, Agree(Tasks, T, borrowed, borrowed')
  PROVE  \A m \in MMs : borrowing'[m] = borrowing[m] + Is(borrowed'[t], m) - Is(borrowed[t], m)
                                                     + Is(borrowed'[u], m) - Is(borrowed[u], m)
<1>1. IsFiniteSet(Tasks)
  BY TaskAssumption
<1>2. \A m : Num(Tasks, borrowed', m)
               = Num(Tasks, borrowed, m)
                   + Is(borrowed'[t], m) - Is(borrowed[t], m)
                   + Is(borrowed'[u], m) - Is(borrowed[u], m)
  BY <1>1, CountPasses, SMTT(30)
<1> QED BY <1>2 DEF borrowing

LEMMA SwitchMoves ==
  ASSUME NEW c \in CPUs, Agree(CPUs, {c}, prev_mm, prev_mm')
  PROVE  \A m \in MMs : switching'[m] = switching[m] + Is(prev_mm'[c], m) - Is(prev_mm[c], m)
<1>1. IsFiniteSet(CPUs)
  BY CpuAssumption
<1>2. \A m : Num(CPUs, prev_mm', m)
               = Num(CPUs, prev_mm, m) + Is(prev_mm'[c], m) - Is(prev_mm[c], m)
  BY <1>1, CountMoves
<1> QED BY <1>2 DEF switching

\* What the invariant says of an mm at its stages, and of those who hold it.
LEMMA Alive ==
  ASSUME Inv
  PROVE  /\ \A m \in MMs :
              /\ mm_users[m] \in Nat /\ mm_count[m] \in Nat
              /\ mm_users[m] > 0 => mmst[m] = "used" /\ work[m] = "none" /\ mm_count[m] > 0
              /\ mmst[m] = "free" =>
                   /\ mm_users[m] = 0 /\ mm_count[m] = 0 /\ work[m] = "none"
                   /\ using[m] = 0 /\ borrowing[m] = 0 /\ switching[m] = 0
                   /\ m \notin observed /\ m \notin oom /\ m # init_mm
              /\ work[m] = "mmput" => mmst[m] = "used" /\ mm_users[m] = 0 /\ mm_count[m] > 0
              /\ work[m] = "mmdrop" => mmst[m] = "exited" /\ mm_users[m] = 0 /\ mm_count[m] = 0
         /\ \A m \in observed : mm_users[m] > 0
         /\ \A m \in oom : mm_count[m] > 0
         /\ \A t \in Tasks : mm[t] # None => mm[t] \in MMs /\ mm_users[mm[t]] > 0
         /\ \A t, u \in Tasks : mm[t] # None /\ mm[u] = mm[t] /\ u # t => mm_users[mm[t]] > 1
         /\ \A t \in Tasks : borrowed[t] # None =>
              /\ borrowed[t] \in MMs /\ mm_count[borrowed[t]] > 0
              /\ mm_users[borrowed[t]] > 0 => mm_count[borrowed[t]] > 1
         /\ \A c \in CPUs : prev_mm[c] # None =>
              /\ prev_mm[c] \in MMs /\ mm_count[prev_mm[c]] > 0
              /\ mm_users[prev_mm[c]] > 0 => mm_count[prev_mm[c]] > 1
<1>1. Fields
  BY DEF Inv
<1>2. /\ \A m \in MMs : mm_users[m] \in Int /\ mm_count[m] \in Int
      /\ \A t \in Tasks : mm[t] \in MMs \cup {None} /\ borrowed[t] \in MMs \cup {None}
      /\ \A c \in CPUs : prev_mm[c] \in MMs \cup {None}
      /\ \A m \in MMs : /\ mmst[m] \in {"free", "used", "exited"}
                      /\ work[m] \in {"none", "mmput", "mmdrop"}
      /\ observed \subseteq MMs /\ oom \subseteq MMs
  BY <1>1 DEF Fields, borrowed
<1>3. \A m \in MMs :
        /\ mm_users[m] \in Nat /\ mm_count[m] \in Nat
        /\ mm_users[m] >= using[m] /\ mm_count[m] >= borrowing[m] + switching[m]
        /\ mm_users[m] > 0 \/ work[m] = "mmput" => mm_count[m] > borrowing[m] + switching[m]
        /\ m \in observed \/ m = init_mm => mm_users[m] > 0
        /\ m \in oom => mm_count[m] > 0
  BY <1>1, <1>2, Holders DEF Inv, Counted, Users, References, One
<1>4. \A m \in MMs :
        /\ mm_users[m] > 0 => mmst[m] = "used" /\ work[m] = "none" /\ mm_count[m] > 0
        /\ mmst[m] = "free" => /\ mm_users[m] = 0 /\ mm_count[m] = 0 /\ work[m] = "none"
                               /\ using[m] = 0 /\ borrowing[m] = 0 /\ switching[m] = 0
                               /\ m \notin observed /\ m \notin oom /\ m # init_mm
        /\ work[m] = "mmput" => mmst[m] = "used" /\ mm_users[m] = 0 /\ mm_count[m] > 0
        /\ work[m] = "mmdrop" => mmst[m] = "exited" /\ mm_users[m] = 0 /\ mm_count[m] = 0
  BY <1>1, <1>2, <1>3, Holders DEF Inv, Stages
<1>5. \A t, u \in Tasks : mm[t] # None /\ mm[u] = mm[t] /\ u # t => mm_users[mm[t]] > 1
  BY <1>1, <1>2, <1>3, Holders
<1>6. \A t \in Tasks : mm[t] # None => mm[t] \in MMs /\ mm_users[mm[t]] > 0
  BY <1>1, <1>2, <1>3, Holders
<1>7. \A t \in Tasks : borrowed[t] # None =>
        /\ borrowed[t] \in MMs /\ mm_count[borrowed[t]] > 0
        /\ mm_users[borrowed[t]] > 0 => mm_count[borrowed[t]] > 1
  BY <1>1, <1>2, <1>3, Holders
<1>8. \A c \in CPUs : prev_mm[c] # None =>
        /\ prev_mm[c] \in MMs /\ mm_count[prev_mm[c]] > 0
        /\ mm_users[prev_mm[c]] > 0 => mm_count[prev_mm[c]] > 1
  BY <1>1, <1>2, <1>3, Holders
<1> QED BY <1>2, <1>3, <1>4, <1>5, <1>6, <1>7, <1>8

\* What a step finds at n: where its two counts come from, and that nobody holds a free mm_struct.
UsersBalance(n) ==
    /\ mm_users[n] = Users(n) /\ using[n] \in Nat
    /\ mmst[n] = "free" => mm_users[n] = 0 /\ using[n] = 0 /\ n \notin observed /\ n # init_mm

ReferencesBalance(n) ==
    /\ mm_count[n] = References(n) /\ borrowing[n] \in Nat /\ switching[n] \in Nat
    /\ mm_users[n] \in Nat /\ (mm_users[n] > 0 => work[n] = "none")
    /\ mmst[n] = "free" => /\ mm_users[n] = 0 /\ work[n] = "none" /\ n \notin oom
                           /\ borrowing[n] = 0 /\ switching[n] = 0
    /\ \A y \in Tasks : mm[y] = n => mm_users[n] > 0

LEMMA InBalance ==
  ASSUME Inv, NEW n \in MMs
  PROVE  UsersBalance(n) /\ ReferencesBalance(n)
<1>1. mm_users[n] = Users(n) /\ mm_count[n] = References(n)
  BY DEF Inv, Counted
<1>2. using[n] \in Nat /\ borrowing[n] \in Nat /\ switching[n] \in Nat
  BY Holders DEF Inv
<1> QED BY <1>1, <1>2, Alive, MmAssumption DEF UsersBalance, ReferencesBalance

\* The next owner of an address space is the present one or another user.
LEMMA NextOwnerUses ==
  ASSUME NEW m, NEW t
  PROVE  \/ owner[m] # t /\ NextOwner(m, t) = owner[m]
         \/ NextOwner(m, t) = None
         \/ /\ NextOwner(m, t) \in Tasks \ {t} /\ mm[NextOwner(m, t)] = m
            /\ NextOwner(m, t) \notin kthread
<1> DEFINE others == {u \in Slots \ {t} : /\ mm[u] = m /\ u \notin kthread
                                           /\ st[u] \in {"ready", "running"}}
<1>1. others # {} => (CHOOSE u \in others : TRUE) \in others
  OBVIOUS
<1> QED BY <1>1 DEF NextOwner, Tasks

\* What the operations on the counts do, alone and as exec_mmap() and the others combine them.
LEMMA NothingSet ==
  ASSUME SetCounts(Counts)
  PROVE  UNCHANGED <<mm_users, mm_count, mmst, work>>
BY DEF SetCounts, Counts

LEMMA GetSet ==
  ASSUME Fields, NEW m \in MMs, SetCounts(mmget(Counts, m))
  PROVE  /\ mm_users' = [n \in MMs |-> IF n = m THEN mm_users[n] + 1 ELSE mm_users[n]]
         /\ UNCHANGED <<mm_count, mmst, work>>
<1>1. mm_users' = [n \in MMs |-> IF n = m THEN mm_users[n] + 1 ELSE mm_users[n]]
  BY DEF SetCounts, Fields, Counts, mmget
<1>2. UNCHANGED <<mm_count, mmst, work>>
  BY DEF SetCounts, Fields, Counts, mmget
<1> QED BY <1>1, <1>2

LEMMA PutSet ==
  ASSUME Fields, NEW m \in MMs, SetCounts(mmput(Counts, m))
  PROVE  /\ mm_users' = [n \in MMs |-> IF n = m THEN mm_users[n] - 1 ELSE mm_users[n]]
         /\ work' = [n \in MMs |-> IF n = m /\ mm_users[n] = 1 THEN "mmput" ELSE work[n]]
         /\ UNCHANGED <<mm_count, mmst>>
<1>1. mm_users' = [n \in MMs |-> IF n = m THEN mm_users[n] - 1 ELSE mm_users[n]]
  BY DEF SetCounts, Fields, Counts, mmput
<1>2. work' = [n \in MMs |-> IF n = m /\ mm_users[n] = 1 THEN "mmput" ELSE work[n]]
  BY DEF SetCounts, Fields, Counts, mmput
<1>3. UNCHANGED <<mm_count, mmst>>
  BY DEF SetCounts, Fields, Counts, mmput
<1> QED BY <1>1, <1>2, <1>3

LEMMA GrabSet ==
  ASSUME Fields, NEW m \in MMs, SetCounts(mmgrab(Counts, m))
  PROVE  /\ mm_count' = [n \in MMs |-> IF n = m THEN mm_count[n] + 1 ELSE mm_count[n]]
         /\ UNCHANGED <<mm_users, mmst, work>>
<1>1. mm_count' = [n \in MMs |-> IF n = m THEN mm_count[n] + 1 ELSE mm_count[n]]
  BY DEF SetCounts, Fields, Counts, mmgrab
<1>2. UNCHANGED <<mm_users, mmst, work>>
  BY DEF SetCounts, Fields, Counts, mmgrab
<1> QED BY <1>1, <1>2

LEMMA PutGrabSet ==
  ASSUME Fields, NEW m \in MMs, SetCounts(mmput(mmgrab(Counts, m), m))
  PROVE  /\ mm_users' = [n \in MMs |-> IF n = m THEN mm_users[n] - 1 ELSE mm_users[n]]
         /\ mm_count' = [n \in MMs |-> IF n = m THEN mm_count[n] + 1 ELSE mm_count[n]]
         /\ work' = [n \in MMs |-> IF n = m /\ mm_users[n] = 1 THEN "mmput" ELSE work[n]]
         /\ UNCHANGED <<mmst>>
<1>1. mm_users' = [n \in MMs |-> IF n = m THEN mm_users[n] - 1 ELSE mm_users[n]]
  BY DEF SetCounts, Fields, Counts, mmgrab, mmput
<1>2. mm_count' = [n \in MMs |-> IF n = m THEN mm_count[n] + 1 ELSE mm_count[n]]
  BY DEF SetCounts, Fields, Counts, mmgrab, mmput
<1>3. work' = [n \in MMs |-> IF n = m /\ mm_users[n] = 1 THEN "mmput" ELSE work[n]]
  BY DEF SetCounts, Fields, Counts, mmgrab, mmput
<1>4. UNCHANGED <<mmst>>
  BY DEF SetCounts, Fields, Counts, mmgrab, mmput
<1> QED BY <1>1, <1>2, <1>3, <1>4

LEMMA DropSet ==
  ASSUME Fields, NEW m \in MMs,
         SetCounts(mmdrop(Counts, m))
  PROVE  /\ mm_count' = [n \in MMs |-> IF n = m THEN mm_count[n] - 1 ELSE mm_count[n]]
         /\ mmst' = [n \in MMs |-> IF n = m /\ mm_count[n] = 1 THEN "free" ELSE mmst[n]]
         /\ UNCHANGED <<mm_users, work>>
<1>1. mm_count' = [n \in MMs |-> IF n = m THEN mm_count[n] - 1 ELSE mm_count[n]]
  BY DEF SetCounts, Fields, Counts, mmdrop
<1>2. mmst' = [n \in MMs |-> IF n = m /\ mm_count[n] = 1 THEN "free" ELSE mmst[n]]
  BY DEF SetCounts, Fields, Counts, mmdrop
<1>3. UNCHANGED <<mm_users, work>>
  BY DEF SetCounts, Fields, Counts, mmdrop
<1> QED BY <1>1, <1>2, <1>3

LEMMA LastPutSet ==
  ASSUME Fields, NEW m \in MMs,
         SetCounts(mmdrop([Counts EXCEPT !.work[m] = "none", !.mmst[m] = "exited"], m))
  PROVE  /\ mm_count' = [n \in MMs |-> IF n = m THEN mm_count[n] - 1 ELSE mm_count[n]]
         /\ mmst' = [n \in MMs |-> IF n = m THEN (IF mm_count[n] = 1 THEN "free" ELSE "exited")
                                   ELSE mmst[n]]
         /\ work' = [n \in MMs |-> IF n = m THEN "none" ELSE work[n]]
         /\ UNCHANGED <<mm_users>>
<1>1. mm_count' = [n \in MMs |-> IF n = m THEN mm_count[n] - 1 ELSE mm_count[n]]
  BY DEF SetCounts, Fields, Counts, mmdrop
<1>2. mmst' = [n \in MMs |-> IF n = m THEN (IF mm_count[n] = 1 THEN "free" ELSE "exited")
                             ELSE mmst[n]]
  BY DEF SetCounts, Fields, Counts, mmdrop
<1>3. work' = [n \in MMs |-> IF n = m THEN "none" ELSE work[n]]
  BY DEF SetCounts, Fields, Counts, mmdrop
<1>4. UNCHANGED <<mm_users>>
  BY DEF SetCounts, Fields, Counts, mmdrop
<1> QED BY <1>1, <1>2, <1>3, <1>4

LEMMA AsyncDropSet ==
  ASSUME Fields, NEW m \in MMs,
         SetCounts([Counts EXCEPT !.count[m] = @ - 1,
                                  !.work[m] = IF mm_count[m] = 1 THEN "mmdrop" ELSE @])
  PROVE  /\ mm_count' = [n \in MMs |-> IF n = m THEN mm_count[n] - 1 ELSE mm_count[n]]
         /\ work' = [n \in MMs |-> IF n = m /\ mm_count[n] = 1 THEN "mmdrop" ELSE work[n]]
         /\ UNCHANGED <<mm_users, mmst>>
<1>1. mm_count' = [n \in MMs |-> IF n = m THEN mm_count[n] - 1 ELSE mm_count[n]]
  BY DEF SetCounts, Fields, Counts
<1>2. work' = [n \in MMs |-> IF n = m /\ mm_count[n] = 1 THEN "mmdrop" ELSE work[n]]
  BY DEF SetCounts, Fields, Counts
<1>3. UNCHANGED <<mm_users, mmst>>
  BY DEF SetCounts, Fields, Counts
<1> QED BY <1>1, <1>2, <1>3

LEMMA InitSet ==
  ASSUME Fields, NEW m \in MMs, SetCounts(MmInit(m))
  PROVE  /\ mm_users' = [n \in MMs |-> IF n = m THEN 1 ELSE mm_users[n]]
         /\ mm_count' = [n \in MMs |-> IF n = m THEN 1 ELSE mm_count[n]]
         /\ mmst' = [n \in MMs |-> IF n = m THEN "used" ELSE mmst[n]]
         /\ UNCHANGED <<work>>
<1>1. mm_users' = [n \in MMs |-> IF n = m THEN 1 ELSE mm_users[n]]
  BY DEF SetCounts, Fields, MmInit
<1>2. mm_count' = [n \in MMs |-> IF n = m THEN 1 ELSE mm_count[n]]
  BY DEF SetCounts, Fields, MmInit
<1>3. mmst' = [n \in MMs |-> IF n = m THEN "used" ELSE mmst[n]]
  BY DEF SetCounts, Fields, MmInit
<1>4. UNCHANGED <<work>>
  BY DEF SetCounts, Fields, MmInit
<1> QED BY <1>1, <1>2, <1>3, <1>4

LEMMA InitDropSet ==
  ASSUME Fields, NEW m \in MMs, NEW b \in MMs \ {m},
         SetCounts(mmdrop(MmInit(m), b))
  PROVE  /\ mm_users' = [n \in MMs |-> IF n = m THEN 1 ELSE mm_users[n]]
         /\ mm_count' = [n \in MMs |-> IF n = m THEN 1
                                       ELSE IF n = b THEN mm_count[n] - 1 ELSE mm_count[n]]
         /\ mmst' = [n \in MMs |-> IF n = m THEN "used"
                                   ELSE IF n = b /\ mm_count[n] = 1 THEN "free" ELSE mmst[n]]
         /\ UNCHANGED <<work>>
<1>1. mm_users' = [n \in MMs |-> IF n = m THEN 1 ELSE mm_users[n]]
  BY DEF SetCounts, Fields, MmInit, mmdrop
<1>2. mm_count' = [n \in MMs |-> IF n = m THEN 1
                                 ELSE IF n = b THEN mm_count[n] - 1 ELSE mm_count[n]]
  BY DEF SetCounts, Fields, MmInit, mmdrop
<1>3. mmst' = [n \in MMs |-> IF n = m THEN "used"
                             ELSE IF n = b /\ mm_count[n] = 1 THEN "free" ELSE mmst[n]]
  BY DEF SetCounts, Fields, MmInit, mmdrop
<1>4. UNCHANGED <<work>>
  BY DEF SetCounts, Fields, MmInit, mmdrop
<1> QED BY <1>1, <1>2, <1>3, <1>4

LEMMA InitPutSet ==
  ASSUME Fields, NEW m \in MMs, NEW b \in MMs \ {m},
         SetCounts(mmput(MmInit(m), b))
  PROVE  /\ mm_users' = [n \in MMs |-> IF n = m THEN 1
                                       ELSE IF n = b THEN mm_users[n] - 1 ELSE mm_users[n]]
         /\ mm_count' = [n \in MMs |-> IF n = m THEN 1 ELSE mm_count[n]]
         /\ mmst' = [n \in MMs |-> IF n = m THEN "used" ELSE mmst[n]]
         /\ work' = [n \in MMs |-> IF n = b /\ mm_users[n] = 1 THEN "mmput" ELSE work[n]]
<1>1. mm_users' = [n \in MMs |-> IF n = m THEN 1
                                 ELSE IF n = b THEN mm_users[n] - 1 ELSE mm_users[n]]
  BY DEF SetCounts, Fields, MmInit, mmput
<1>2. mm_count' = [n \in MMs |-> IF n = m THEN 1 ELSE mm_count[n]]
  BY DEF SetCounts, Fields, MmInit, mmput
<1>3. mmst' = [n \in MMs |-> IF n = m THEN "used" ELSE mmst[n]]
  BY DEF SetCounts, Fields, MmInit, mmput
<1>4. work' = [n \in MMs |-> IF n = b /\ mm_users[n] = 1 THEN "mmput" ELSE work[n]]
  BY DEF SetCounts, Fields, MmInit, mmput
<1> QED BY <1>1, <1>2, <1>3, <1>4

LEMMA UseSet ==
  ASSUME Fields, NEW m \in MMs, NEW b \in MMs \ {m},
         SetCounts(mmdrop(mmgrab(mmget(Counts, m), m), b))
  PROVE  /\ mm_users' = [n \in MMs |-> IF n = m THEN mm_users[n] + 1 ELSE mm_users[n]]
         /\ mm_count' = [n \in MMs |-> IF n = m THEN mm_count[n] + 1
                                       ELSE IF n = b THEN mm_count[n] - 1 ELSE mm_count[n]]
         /\ mmst' = [n \in MMs |-> IF n = b /\ mm_count[n] = 1 THEN "free" ELSE mmst[n]]
         /\ UNCHANGED <<work>>
<1>1. mm_users' = [n \in MMs |-> IF n = m THEN mm_users[n] + 1 ELSE mm_users[n]]
  BY DEF SetCounts, Fields, Counts, mmget, mmgrab, mmdrop
<1>2. mm_count' = [n \in MMs |-> IF n = m THEN mm_count[n] + 1
                                 ELSE IF n = b THEN mm_count[n] - 1 ELSE mm_count[n]]
  BY DEF SetCounts, Fields, Counts, mmget, mmgrab, mmdrop
<1>3. mmst' = [n \in MMs |-> IF n = b /\ mm_count[n] = 1 THEN "free" ELSE mmst[n]]
  BY DEF SetCounts, Fields, Counts, mmget, mmgrab, mmdrop
<1>4. UNCHANGED <<work>>
  BY DEF SetCounts, Fields, Counts, mmget, mmgrab, mmdrop
<1> QED BY <1>1, <1>2, <1>3, <1>4

-----------------------------------------------------------------------------
(* The steps.                                                              *)

LEMMA MmputKeeps ==
  ASSUME Inv, NEW m \in MMs, __mmput(m)
  PROVE  Inv' /\ JoinersTold
<1>1. Fields
  BY DEF Inv
<1>2. /\ work[m] = "mmput"
      /\ UNCHANGED <<st, maker, released, kthread, mm, active_mm, curr, prev_mm, owner, observed,
                     oom, vfork_done, waiting, done, tid>>
  BY <1>1 DEF __mmput, Runs, taskVars, mmVars, vforkVars, Fields, SetCounts
<1>3. /\ mm_count' = [n \in MMs |-> IF n = m THEN mm_count[n] - 1 ELSE mm_count[n]]
      /\ mmst' = [n \in MMs |-> IF n = m THEN (IF mm_count[n] = 1 THEN "free" ELSE "exited")
                               ELSE mmst[n]]
      /\ work' = [n \in MMs |-> IF n = m THEN "none" ELSE work[n]]
      /\ UNCHANGED <<mm_users>>
  <2>1. SetCounts(mmdrop([Counts EXCEPT !.work[m] = "none", !.mmst[m] = "exited"], m))
    BY <1>1 DEF __mmput
  <2> QED BY <1>1, <2>1, LastPutSet
<1>4. using' = using /\ borrowing' = borrowing /\ switching' = switching
  BY <1>2, <1>3 DEF borrowed, borrowing, switching, using
<1>5. Fields'
  BY <1>1, <1>2, <1>3 DEF Fields
<1>6. Counted'
  BY <1>1, <1>2, <1>3, <1>4, Alive, Holders, MmAssumption
     DEF Inv, Fields, Counted, Users, References, One, Is
<1>7. Stages'
  BY <1>1, <1>2, <1>3, Alive, Holders, MmAssumption
     DEF Inv, Fields, Counted, Users, References, Stages, One
<1>8. Owners'
  BY <1>1, <1>2, <1>3, Alive, MmAssumption DEF Inv, Fields, Owners, Stations, OnCpu, Spaces
<1>9. OnCpu' /\ Stations' /\ Spaces' /\ Vforks' /\ JoinersTold
  BY <1>2, <1>3 DEF Inv, OnCpu, Stations, Spaces, Vforks, JoinersTold
<1> QED BY <1>5, <1>6, <1>7, <1>8, <1>9 DEF Inv

LEMMA MmdropAsyncKeeps ==
  ASSUME Inv, NEW m \in MMs, mmdrop_async(m)
  PROVE  Inv' /\ JoinersTold
<1>1. Fields
  BY DEF Inv
<1>2. /\ m \in oom
      /\ oom' = oom \ {m}
      /\ UNCHANGED <<st, maker, released, kthread, mm, active_mm, curr, prev_mm, owner, observed,
                     vfork_done, waiting, done, tid>>
  BY <1>1 DEF mmdrop_async, Runs, taskVars, mmVars, vforkVars, Fields, SetCounts
<1>3. /\ mm_count' = [n \in MMs |-> IF n = m THEN mm_count[n] - 1 ELSE mm_count[n]]
      /\ work' = [n \in MMs |-> IF n = m /\ mm_count[n] = 1 THEN "mmdrop" ELSE work[n]]
      /\ UNCHANGED <<mm_users, mmst>>
  <2>1. SetCounts([Counts EXCEPT !.count[m] = @ - 1,
                               !.work[m] = IF mm_count[m] = 1 THEN "mmdrop" ELSE @])
    BY <1>1 DEF mmdrop_async
  <2> QED BY <1>1, <2>1, AsyncDropSet
<1>4. using' = using /\ borrowing' = borrowing /\ switching' = switching
  BY <1>2, <1>3 DEF borrowed, borrowing, switching, using
<1>5. Fields'
  BY <1>1, <1>2, <1>3 DEF Fields
<1>6. Spaces'
  BY <1>1, <1>2, <1>3, MmAssumption DEF Inv, Fields, Spaces, Stations, OnCpu
<1>7. Counted'
  BY <1>1, <1>2, <1>3, <1>4, Alive, Holders, MmAssumption
     DEF Inv, Fields, Counted, Users, References, One, Is
<1>8. Stages'
  BY <1>1, <1>2, <1>3, Alive, Holders, MmAssumption
     DEF Inv, Fields, Counted, Users, References, Stages, One
<1>9. OnCpu' /\ Stations' /\ Owners' /\ Vforks' /\ JoinersTold
  BY <1>2, <1>3 DEF Inv, OnCpu, Stations, Owners, Vforks, JoinersTold
<1> QED BY <1>5, <1>6, <1>7, <1>8, <1>9 DEF Inv

LEMMA MmdropAsyncFnKeeps ==
  ASSUME Inv, NEW m \in MMs, mmdrop_async_fn(m)
  PROVE  Inv' /\ JoinersTold
<1>1. Fields
  BY DEF Inv
<1>2. /\ work[m] = "mmdrop"
      /\ UNCHANGED <<st, maker, released, kthread, mm, active_mm, curr, prev_mm, owner, observed,
                     oom, vfork_done, waiting, done, tid>>
  BY <1>1 DEF mmdrop_async_fn, Runs, taskVars, mmVars, vforkVars, Fields, SetCounts
<1>3. /\ mmst' = [n \in MMs |-> IF n = m THEN "free" ELSE mmst[n]]
      /\ work' = [n \in MMs |-> IF n = m THEN "none" ELSE work[n]]
      /\ UNCHANGED <<mm_users, mm_count>>
  BY <1>1 DEF mmdrop_async_fn, Fields, SetCounts, Counts
<1>4. using' = using /\ borrowing' = borrowing /\ switching' = switching
  BY <1>2, <1>3 DEF borrowed, borrowing, switching, using
<1>5. Fields'
  BY <1>1, <1>2, <1>3 DEF Fields
<1>6. Counted'
  BY <1>1, <1>2, <1>3, <1>4, Alive, Holders, MmAssumption
     DEF Inv, Fields, Counted, Users, References, One, Is
<1>7. Stages'
  BY <1>1, <1>2, <1>3, Alive, Holders, MmAssumption
     DEF Inv, Fields, Counted, Users, References, Stages, One
<1>8. Owners'
  BY <1>1, <1>2, <1>3, Alive, MmAssumption DEF Inv, Fields, Owners, Stations, OnCpu, Spaces
<1>9. OnCpu' /\ Stations' /\ Spaces' /\ Vforks' /\ JoinersTold
  BY <1>2, <1>3 DEF Inv, OnCpu, Stations, Spaces, Vforks, JoinersTold
<1> QED BY <1>5, <1>6, <1>7, <1>8, <1>9 DEF Inv

LEMMA ObserverMmputKeeps ==
  ASSUME Inv, NEW m \in MMs, observer_mmput(m)
  PROVE  Inv' /\ JoinersTold
<1>1. Fields
  BY DEF Inv
<1>2. /\ m \in observed
      /\ observed' = observed \ {m}
      /\ UNCHANGED <<st, maker, released, kthread, mm, active_mm, curr, prev_mm, owner, oom,
                     vfork_done, waiting, done, tid>>
  BY <1>1 DEF observer_mmput, Runs, taskVars, mmVars, vforkVars, Fields, SetCounts
<1>3. /\ mm_users' = [n \in MMs |-> IF n = m THEN mm_users[n] - 1 ELSE mm_users[n]]
      /\ work' = [n \in MMs |-> IF n = m /\ mm_users[n] = 1 THEN "mmput" ELSE work[n]]
      /\ UNCHANGED <<mm_count, mmst>>
  <2>1. SetCounts(mmput(Counts, m))
    BY <1>1 DEF observer_mmput
  <2> QED BY <1>1, <2>1, PutSet
<1>4. using' = using /\ borrowing' = borrowing /\ switching' = switching
  BY <1>2, <1>3 DEF borrowed, borrowing, switching, using
<1>5. Fields'
  BY <1>1, <1>2, <1>3 DEF Fields
<1>6. Spaces'
  BY <1>1, <1>2, <1>3, MmAssumption DEF Inv, Fields, Spaces, Stations, OnCpu
<1>7. Counted'
  BY <1>1, <1>2, <1>3, <1>4, Alive, Holders, MmAssumption
     DEF Inv, Fields, Counted, Users, References, One, Is
<1>8. Stages'
  BY <1>1, <1>2, <1>3, Alive, Holders, MmAssumption
     DEF Inv, Fields, Counted, Users, References, Stages, One
<1>9. OnCpu' /\ Stations' /\ Owners' /\ Vforks' /\ JoinersTold
  BY <1>2, <1>3 DEF Inv, OnCpu, Stations, Owners, Vforks, JoinersTold
<1> QED BY <1>5, <1>6, <1>7, <1>8, <1>9 DEF Inv

LEMMA MarkOomVictimKeeps ==
  ASSUME Inv, NEW m \in MMs, mark_oom_victim(m)
  PROVE  Inv' /\ JoinersTold
<1>1. Fields
  BY DEF Inv
<1>2. /\ m # init_mm /\ mm_users[m] > 0 /\ m \notin oom
      /\ oom' = oom \cup {m}
      /\ UNCHANGED <<st, maker, released, kthread, mm, active_mm, curr, prev_mm, owner, observed,
                     vfork_done, waiting, done, tid>>
  BY <1>1 DEF mark_oom_victim, Runs, taskVars, mmVars, vforkVars, Fields, SetCounts
<1>3. /\ mm_count' = [n \in MMs |-> IF n = m THEN mm_count[n] + 1 ELSE mm_count[n]]
      /\ UNCHANGED <<mm_users, mmst, work>>
  BY <1>1 DEF mark_oom_victim, Fields, SetCounts, Counts, mmgrab
<1>4. using' = using /\ borrowing' = borrowing /\ switching' = switching
  BY <1>2, <1>3 DEF borrowed, borrowing, switching, using
<1>5. Fields'
  BY <1>1, <1>2, <1>3 DEF Fields
<1>6. Spaces'
  BY <1>1, <1>2, <1>3, MmAssumption DEF Inv, Fields, Spaces, Stations, OnCpu
<1>7. Counted'
  BY <1>1, <1>2, <1>3, <1>4, Alive, Holders, MmAssumption
     DEF Inv, Fields, Counted, Users, References, One, Is
<1>8. Stages'
  BY <1>1, <1>2, <1>3, Alive, Holders, MmAssumption
     DEF Inv, Fields, Counted, Users, References, Stages, One
<1>9. OnCpu' /\ Stations' /\ Owners' /\ Vforks' /\ JoinersTold
  BY <1>2, <1>3 DEF Inv, OnCpu, Stations, Owners, Vforks, JoinersTold
<1> QED BY <1>5, <1>6, <1>7, <1>8, <1>9 DEF Inv

LEMMA FinishTaskSwitchKeeps ==
  ASSUME Inv, NEW c \in CPUs, finish_task_switch(c)
  PROVE  Inv' /\ JoinersTold
<1>1. Fields
  BY DEF Inv
<1>2. PICK m \in MMs : m = prev_mm[c]
  BY <1>1 DEF finish_task_switch, Fields
<1>3. /\ prev_mm' = [prev_mm EXCEPT ![c] = None]
      /\ UNCHANGED <<st, maker, released, kthread, mm, active_mm, curr, owner, observed, oom,
                     vfork_done, waiting, done, tid>>
  BY <1>1, <1>2 DEF finish_task_switch, Runs, taskVars, mmVars, vforkVars, Fields, SetCounts
<1>4. /\ mm_count' = [n \in MMs |-> IF n = m THEN mm_count[n] - 1 ELSE mm_count[n]]
      /\ mmst' = [n \in MMs |-> IF n = m /\ mm_count[n] = 1 THEN "free" ELSE mmst[n]]
      /\ UNCHANGED <<mm_users, work>>
  <2>1. SetCounts(mmdrop(Counts, m))
    BY <1>1, <1>2 DEF finish_task_switch
  <2> QED BY <1>1, <1>2, <2>1, DropSet
<1>5. \A d \in MMs : switching'[d] = switching[d] + Is(prev_mm'[c], d) - Is(prev_mm[c], d)
  <2>1. Agree(CPUs, {c}, prev_mm, prev_mm')
    BY <1>1, <1>3, <1>4 DEF Agree, Fields
  <2> QED BY <2>1, SwitchMoves
<1>6. using' = using /\ borrowing' = borrowing
  BY <1>3, <1>4 DEF borrowed, borrowing, using
<1>7. Fields'
  BY <1>1, <1>2, <1>3, <1>4 DEF Fields
<1>8. Counted'
  <2> SUFFICES ASSUME NEW n \in MMs
               PROVE  mm_users'[n] = Users(n)' /\ mm_count'[n] = References(n)'
    BY DEF Counted
  <2>1. ReferencesBalance(n)
    BY InBalance
  <2>2. mm_users'[n] = Users(n)'
    BY <1>1, <1>2, <1>3, <1>4, <1>5, <1>6, InBalance, MmAssumption
       DEF UsersBalance, Users, One, Is, Fields
  <2>3. /\ mm_count'[n] = IF n = m THEN mm_count[n] - 1 ELSE mm_count[n]
        /\ switching'[n] = IF n = m THEN switching[n] - 1 ELSE switching[n]
        /\ UNCHANGED <<mm_users, work, oom, borrowing>>
    BY <1>1, <1>2, <1>3, <1>4, <1>5, <1>6, <2>1, MmAssumption DEF ReferencesBalance, Is, Fields
  <2>4. CASE n = m
    BY <2>2, <2>4, <2>3, <2>1 DEF ReferencesBalance, References, One
  <2>5. CASE n # m
    BY <2>2, <2>5, <2>3, <2>1 DEF ReferencesBalance, References, One
  <2> QED BY <2>2, <2>4, <2>5
<1>9. Stages'
  BY <1>1, <1>2, <1>3, <1>4, Alive, Holders, MmAssumption
     DEF Inv, Fields, Counted, Users, References, Stages, One
<1>10. Owners'
  BY <1>1, <1>2, <1>3, <1>4, Alive, MmAssumption DEF Inv, Fields, Owners, Stations, OnCpu, Spaces
<1>11. OnCpu' /\ Stations' /\ Spaces' /\ Vforks' /\ JoinersTold
  BY <1>3, <1>4 DEF Inv, OnCpu, Stations, Spaces, Vforks, JoinersTold
<1> QED BY <1>7, <1>8, <1>9, <1>10, <1>11 DEF Inv

LEMMA GetTaskMmKeeps ==
  ASSUME Inv, NEW t \in Tasks, get_task_mm(t)
  PROVE  Inv' /\ JoinersTold
<1>1. Fields
  BY DEF Inv
<1>2. PICK m \in MMs : m = mm[t]
  BY <1>1 DEF get_task_mm, MayObserve, Fields
<1>3. /\ m \notin observed /\ t \notin kthread
      /\ observed' = observed \cup {m}
      /\ UNCHANGED <<st, maker, released, kthread, mm, active_mm, curr, prev_mm, owner, oom,
                     vfork_done, waiting, done, tid>>
  BY <1>1, <1>2 DEF get_task_mm, Runs, taskVars, mmVars, vforkVars, Fields, SetCounts, MayObserve
<1>4. /\ mm_users' = [n \in MMs |-> IF n = m THEN mm_users[n] + 1 ELSE mm_users[n]]
      /\ UNCHANGED <<mm_count, mmst, work>>
  BY <1>1, <1>2 DEF get_task_mm, Fields, SetCounts, Counts, mmget, MayObserve
<1>5. using' = using /\ borrowing' = borrowing /\ switching' = switching
  BY <1>3, <1>4 DEF borrowed, borrowing, switching, using
<1>6. Fields'
  BY <1>1, <1>2, <1>3, <1>4 DEF Fields
<1>7. Spaces'
  BY <1>1, <1>2, <1>3, <1>4, MmAssumption DEF Inv, Fields, Spaces, Stations, OnCpu
<1>8. Counted'
  BY <1>1, <1>2, <1>3, <1>4, <1>5, Alive, Holders, MmAssumption
     DEF Inv, Fields, Counted, Users, References, One, Is
<1>9. Stages'
  BY <1>1, <1>2, <1>3, <1>4, Alive, Holders, MmAssumption
     DEF Inv, Fields, Counted, Users, References, Stages, One
<1>10. OnCpu' /\ Stations' /\ Owners' /\ Vforks' /\ JoinersTold
  BY <1>3, <1>4 DEF Inv, OnCpu, Stations, Owners, Vforks, JoinersTold
<1> QED BY <1>6, <1>7, <1>8, <1>9, <1>10 DEF Inv

LEMMA CopyMmSharedKeeps ==
  ASSUME Inv, NEW t \in Tasks, NEW c \in CPUs, NEW u \in Slots, copy_mm_shared(t, c, u)
  PROVE  Inv' /\ JoinersTold
<1>1. Fields
  BY DEF Inv
<1>2. u \in Tasks
  BY DEF Tasks
<1>3. u # t /\ mm[u] = None /\ active_mm[u] = None
  BY <1>1, <1>2 DEF copy_mm_shared, Runs, Fields, Inv, Spaces
<1>4. /\ curr[c] = t /\ st[t] = "running" /\ t \notin released
      /\ prev_mm[c] = None /\ waiting[t] = None
      /\ st[u] = "absent" /\ (t \in kthread => mm[t] = None)
      /\ st' = [st EXCEPT ![u] = "new"]
      /\ maker' = [maker EXCEPT ![u] = t]
      /\ mm' = [y \in Tasks |-> IF y = u THEN mm[t] ELSE mm[y]]
      /\ active_mm' = [y \in Tasks |-> IF y = u THEN mm[t] ELSE active_mm[y]]
      /\ kthread' = IF t \in kthread THEN kthread \cup {u} ELSE kthread \ {u}
      /\ UNCHANGED <<released, curr, prev_mm, owner, observed, oom, vfork_done, waiting, done,
                     tid>>
  BY <1>1, <1>2, <1>3, MmAssumption
     DEF copy_mm_shared, Runs, taskVars, mmVars, vforkVars, Fields, SetCounts
<1>5. /\ mm_users' = [n \in MMs |-> IF n = mm[t] THEN mm_users[n] + 1 ELSE mm_users[n]]
      /\ UNCHANGED <<mm_count, mmst, work>>
  <2>1. CASE mm[t] = None
    <3>1. SetCounts(Counts)
      BY <1>1, <1>2, <1>3, <2>1 DEF copy_mm_shared
    <3> QED BY <1>1, <2>1, <3>1, NothingSet, MmAssumption DEF Fields
  <2>2. CASE mm[t] # None
    <3>1. PICK m \in MMs : m = mm[t]
      BY <1>1, <1>2, <1>3, <2>2 DEF Fields
    <3>2. SetCounts(mmget(Counts, m))
      BY <1>1, <1>2, <1>3, <2>2, <3>1 DEF copy_mm_shared
    <3> QED BY <1>1, <3>1, <3>2, GetSet
  <2> QED BY <2>1, <2>2
<1>6. \A n \in MMs : using'[n] = using[n] + Is(mm'[u], n) - Is(mm[u], n)
  <2>1. Agree(Tasks, {u}, mm, mm')
    BY <1>1, <1>4, <1>5 DEF Agree, Fields
  <2> QED BY <1>1, <1>2, <1>3, <2>1, UserMoves
<1>7. borrowing' = borrowing
  <2>1. borrowed' = borrowed
    BY <1>1, <1>2, <1>3, <1>4, <1>5 DEF borrowed, Fields, Inv, Stations, Spaces
  <2> QED BY <2>1 DEF borrowing
<1>8. switching' = switching
  BY <1>4, <1>5 DEF switching
<1>9. Fields'
  BY <1>1, <1>2, <1>3, <1>4, <1>5 DEF Fields
<1>10. OnCpu'
  BY <1>1, <1>2, <1>3, <1>4, <1>5 DEF Inv, Fields, OnCpu, Stations, Spaces
<1>11. Stations'
  BY <1>1, <1>2, <1>3, <1>4, <1>5 DEF Inv, Fields, Stations, OnCpu, Spaces
<1>12. Spaces'
  BY <1>1, <1>2, <1>3, <1>4, <1>5, MmAssumption DEF Inv, Fields, Spaces, Stations, OnCpu
<1>13. Counted'
  <2> SUFFICES ASSUME NEW n \in MMs
               PROVE  mm_users'[n] = Users(n)' /\ mm_count'[n] = References(n)'
    BY DEF Counted
  <2>1. ReferencesBalance(n)
    BY InBalance
  <2>2. mm_users'[n] = Users(n)'
    BY <1>1, <1>2, <1>3, <1>4, <1>5, <1>6, <1>7, <1>8, InBalance, MmAssumption
       DEF UsersBalance, Users, One, Is, Fields
  <2>3. mm_count'[n] = References(n)'
    BY <1>1, <1>2, <1>3, <1>4, <1>5, <1>6, <1>7, <1>8, <2>1, MmAssumption
       DEF ReferencesBalance, References, One, Is, Fields
  <2> QED BY <2>2, <2>3
<1>14. Stages'
  BY <1>1, <1>2, <1>3, <1>4, <1>5, Alive, Holders, MmAssumption
     DEF Inv, Fields, Counted, Users, References, Stages, One
<1>15. Owners'
  BY <1>1, <1>2, <1>3, <1>4, <1>5, Alive, MmAssumption
     DEF Inv, Fields, Owners, Stations, OnCpu, Spaces
<1>16. Vforks'
  BY <1>1, <1>2, <1>3, <1>4, <1>5, MmAssumption DEF Inv, Fields, Vforks, Stations, OnCpu, Spaces
<1>17. JoinersTold
  BY <1>4, <1>5 DEF Inv, JoinersTold
<1> QED BY <1>9, <1>10, <1>11, <1>12, <1>13, <1>14, <1>15, <1>16, <1>17 DEF Inv

LEMMA DupMmKeeps ==
  ASSUME Inv, NEW t \in Tasks, NEW c \in CPUs, NEW u \in Slots, NEW m \in MMs, dup_mm(t, c, u, m)
  PROVE  Inv' /\ JoinersTold
<1>1. Fields
  BY DEF Inv
<1>2. u \in Tasks
  BY DEF Tasks
<1>3. u # t /\ mm[u] = None /\ active_mm[u] = None
  BY <1>1, <1>2 DEF dup_mm, Runs, Fields, Inv, Spaces
<1>4. /\ curr[c] = t /\ st[t] = "running" /\ t \notin released
      /\ prev_mm[c] = None /\ waiting[t] = None
      /\ st[u] = "absent" /\ t \notin kthread /\ mm[t] # None /\ mmst[m] = "free"
      /\ st' = [st EXCEPT ![u] = "new"]
      /\ maker' = [maker EXCEPT ![u] = t]
      /\ mm' = [y \in Tasks |-> IF y = u THEN m ELSE mm[y]]
      /\ active_mm' = [y \in Tasks |-> IF y = u THEN m ELSE active_mm[y]]
      /\ owner' = [n \in MMs |-> IF n = m THEN u ELSE owner[n]]
      /\ kthread' = kthread \ {u}
      /\ UNCHANGED <<released, curr, prev_mm, observed, oom, vfork_done, waiting, done, tid>>
  BY <1>1, <1>2, <1>3, MmAssumption
     DEF dup_mm, Runs, taskVars, mmVars, vforkVars, Fields, SetCounts
<1>5. /\ mm_users' = [n \in MMs |-> IF n = m THEN 1 ELSE mm_users[n]]
      /\ mm_count' = [n \in MMs |-> IF n = m THEN 1 ELSE mm_count[n]]
      /\ mmst' = [n \in MMs |-> IF n = m THEN "used" ELSE mmst[n]]
      /\ UNCHANGED <<work>>
  <2>1. SetCounts(MmInit(m))
    BY <1>1, <1>2, <1>3 DEF dup_mm
  <2> QED BY <1>1, <1>2, <1>3, <2>1, InitSet
<1>6. \A n \in MMs : using'[n] = using[n] + Is(mm'[u], n) - Is(mm[u], n)
  <2>1. Agree(Tasks, {u}, mm, mm')
    BY <1>1, <1>4, <1>5 DEF Agree, Fields
  <2> QED BY <1>1, <1>2, <1>3, <2>1, UserMoves
<1>7. borrowing' = borrowing
  <2>1. borrowed' = borrowed
    BY <1>1, <1>2, <1>3, <1>4, <1>5 DEF borrowed, Fields, Inv, Stations, Spaces
  <2> QED BY <2>1 DEF borrowing
<1>8. switching' = switching
  BY <1>4, <1>5 DEF switching
<1>9. Fields'
  BY <1>1, <1>2, <1>3, <1>4, <1>5 DEF Fields
<1>10. OnCpu'
  BY <1>1, <1>2, <1>3, <1>4, <1>5 DEF Inv, Fields, OnCpu, Stations, Spaces
<1>11. Stations'
  BY <1>1, <1>2, <1>3, <1>4, <1>5 DEF Inv, Fields, Stations, OnCpu, Spaces
<1>12. Spaces'
  BY <1>1, <1>2, <1>3, <1>4, <1>5, MmAssumption, Alive DEF Inv, Fields, Spaces, Stations, OnCpu
<1>13. Counted'
  <2> SUFFICES ASSUME NEW n \in MMs
               PROVE  mm_users'[n] = Users(n)' /\ mm_count'[n] = References(n)'
    BY DEF Counted
  <2>1. ReferencesBalance(n)
    BY InBalance
  <2>2. mm_users'[n] = Users(n)'
    BY <1>1, <1>2, <1>3, <1>4, <1>5, <1>6, <1>7, <1>8, InBalance, MmAssumption
       DEF UsersBalance, Users, One, Is, Fields
  <2>3. mm_count'[n] = References(n)'
    BY <1>1, <1>2, <1>3, <1>4, <1>5, <1>6, <1>7, <1>8, <2>1, MmAssumption
       DEF ReferencesBalance, References, One, Is, Fields
  <2> QED BY <2>2, <2>3
<1>14. Stages'
  BY <1>1, <1>2, <1>3, <1>4, <1>5, Alive, Holders, MmAssumption
     DEF Inv, Fields, Counted, Users, References, Stages, One
<1>15. Owners'
  BY <1>1, <1>2, <1>3, <1>4, <1>5, Alive, MmAssumption
     DEF Inv, Fields, Owners, Stations, OnCpu, Spaces
<1>16. Vforks'
  BY <1>1, <1>2, <1>3, <1>4, <1>5, MmAssumption DEF Inv, Fields, Vforks, Stations, OnCpu, Spaces
<1>17. JoinersTold
  BY <1>4, <1>5 DEF Inv, JoinersTold
<1> QED BY <1>9, <1>10, <1>11, <1>12, <1>13, <1>14, <1>15, <1>16, <1>17 DEF Inv

LEMMA BadForkCleanupMmKeeps ==
  ASSUME Inv, NEW t \in Tasks, NEW c \in CPUs, NEW u \in Slots, bad_fork_cleanup_mm(t, c, u)
  PROVE  Inv' /\ JoinersTold
<1>1. Fields
  BY DEF Inv
<1>2. u \in Tasks
  BY DEF Tasks
<1>3. st[u] = "new" /\ u # t
      /\ (mm[u] = None => active_mm[u] = None) /\ (mm[u] # None => u \notin kthread)
  BY <1>1, <1>2, MmAssumption DEF bad_fork_cleanup_mm, Runs, Fields, Inv, Spaces, Stations
<1>4. /\ curr[c] = t /\ st[t] = "running" /\ t \notin released
      /\ prev_mm[c] = None /\ waiting[t] = None
      /\ maker[u] = t
      /\ st' = [st EXCEPT ![u] = "absent"]
      /\ maker' = [maker EXCEPT ![u] = None]
      /\ mm' = [y \in Tasks |-> IF y = u THEN None ELSE mm[y]]
      /\ active_mm' = [y \in Tasks |-> IF y = u THEN None ELSE active_mm[y]]
      /\ kthread' = kthread \ {u}
      /\ UNCHANGED <<released, curr, prev_mm, observed, oom, vfork_done, waiting, done, tid>>
  BY <1>1, <1>2, <1>3, MmAssumption
     DEF bad_fork_cleanup_mm, Runs, taskVars, mmVars, vforkVars, Fields, SetCounts, mm_clear_owner
<1>5. owner' = [n \in MMs |-> IF n = mm[u] /\ owner[n] = u THEN None ELSE owner[n]]
  <2>1. owner' = mm_clear_owner(mm[u], u)
    BY DEF bad_fork_cleanup_mm
  <2>2. CASE mm[u] # None /\ owner[mm[u]] = u
    BY <1>1, <1>2, <1>3, <2>1, <2>2 DEF mm_clear_owner, Fields
  <2>3. CASE ~(mm[u] # None /\ owner[mm[u]] = u)
    BY <1>1, <1>2, <1>3, <2>1, <2>3, MmAssumption DEF mm_clear_owner, Fields
  <2> QED BY <2>2, <2>3
<1>6. /\ mm_users' = [n \in MMs |-> IF n = mm[u] THEN mm_users[n] - 1 ELSE mm_users[n]]
      /\ work' = [n \in MMs |-> IF n = mm[u] /\ mm_users[n] = 1 THEN "mmput" ELSE work[n]]
      /\ UNCHANGED <<mm_count, mmst>>
  <2>1. CASE mm[u] = None
    <3>1. SetCounts(Counts)
      BY <1>1, <1>2, <1>3, <2>1 DEF bad_fork_cleanup_mm
    <3> QED BY <1>1, <2>1, <3>1, NothingSet, MmAssumption DEF Fields
  <2>2. CASE mm[u] # None
    <3>1. PICK m \in MMs : m = mm[u]
      BY <1>1, <1>2, <1>3, <2>2 DEF Fields
    <3>2. SetCounts(mmput(Counts, m))
      BY <1>1, <1>2, <1>3, <2>2, <3>1 DEF bad_fork_cleanup_mm
    <3> QED BY <1>1, <3>1, <3>2, PutSet
  <2> QED BY <2>1, <2>2
<1>7. \A n \in MMs : using'[n] = using[n] + Is(mm'[u], n) - Is(mm[u], n)
  <2>1. Agree(Tasks, {u}, mm, mm')
    BY <1>1, <1>4, <1>5, <1>6 DEF Agree, Fields
  <2> QED BY <1>1, <1>2, <1>3, <2>1, UserMoves
<1>8. borrowing' = borrowing
  <2>1. borrowed' = borrowed
    BY <1>1, <1>2, <1>3, <1>4, <1>5, <1>6 DEF borrowed, Fields, Inv, Stations, Spaces
  <2> QED BY <2>1 DEF borrowing
<1>9. switching' = switching
  BY <1>4, <1>5, <1>6 DEF switching
<1>10. Fields'
  BY <1>1, <1>2, <1>3, <1>4, <1>5, <1>6 DEF Fields
<1>11. OnCpu'
  BY <1>1, <1>2, <1>3, <1>4, <1>5, <1>6 DEF Inv, Fields, OnCpu, Stations, Spaces
<1>12. Stations'
  BY <1>1, <1>2, <1>3, <1>4, <1>5, <1>6 DEF Inv, Fields, Stations, OnCpu, Spaces
<1>13. Spaces'
  BY <1>1, <1>2, <1>3, <1>4, <1>5, <1>6, MmAssumption DEF Inv, Fields, Spaces, Stations, OnCpu
<1>14. Counted'
  <2> SUFFICES ASSUME NEW n \in MMs
               PROVE  mm_users'[n] = Users(n)' /\ mm_count'[n] = References(n)'
    BY DEF Counted
  <2>1. ReferencesBalance(n)
    BY InBalance
  <2>2. mm_users'[n] = Users(n)'
    BY <1>1, <1>2, <1>3, <1>4, <1>5, <1>6, <1>7, <1>8, <1>9, InBalance, MmAssumption
       DEF UsersBalance, Users, One, Is, Fields
  <2>3. mm_count'[n] = References(n)'
    BY <1>1, <1>2, <1>3, <1>4, <1>5, <1>6, <1>7, <1>8, <1>9, <2>1, MmAssumption
       DEF ReferencesBalance, References, One, Is, Fields
  <2> QED BY <2>2, <2>3
<1>15. Stages'
  <2>1. ASSUME NEW n \in MMs
        PROVE  /\ mmst'[n] = "used" <=> mm_users'[n] > 0 \/ work'[n] = "mmput"
               /\ mmst'[n] = "free" <=> mm_count'[n] = 0 /\ work'[n] = "none"
               /\ work'[n] = "mmput" => mm_users'[n] = 0
               /\ work'[n] = "mmdrop" => mm_count'[n] = 0
    <3>1. /\ mmst[n] = "used" <=> mm_users[n] > 0 \/ work[n] = "mmput"
          /\ mmst[n] = "free" <=> mm_count[n] = 0 /\ work[n] = "none"
          /\ work[n] = "mmput" => mm_users[n] = 0
          /\ work[n] = "mmdrop" => mm_count[n] = 0
      BY DEF Inv, Stages
    <3>2. mm_users[n] \in Nat /\ mm_count[n] \in Nat /\ (mm_users[n] > 0 => mm_count[n] > 0)
      BY Alive
    <3>3. mmst[n] \in {"free", "used", "exited"} /\ work[n] \in {"none", "mmput", "mmdrop"}
      BY <1>1 DEF Fields
    <3>4. n = mm[u] => mm_users[n] > 0
      BY <1>1, <1>2, Alive, MmAssumption
    <3> QED BY <1>2, <1>3, <1>4, <1>5, <1>6, <3>1, <3>2, <3>3, <3>4
  <2> QED BY <2>1 DEF Stages
<1>16. Owners'
  BY <1>1, <1>2, <1>3, <1>4, <1>5, <1>6, Alive, MmAssumption
     DEF Inv, Fields, Owners, Stations, OnCpu, Spaces
<1>17. Vforks'
  BY <1>1, <1>2, <1>3, <1>4, <1>5, <1>6, MmAssumption
     DEF Inv, Fields, Vforks, Stations, OnCpu, Spaces
<1>18. JoinersTold
  BY <1>4, <1>5, <1>6 DEF Inv, JoinersTold
<1> QED BY <1>10, <1>11, <1>12, <1>13, <1>14, <1>15, <1>16, <1>17, <1>18 DEF Inv

LEMMA KernelCloneKeeps ==
  ASSUME Inv, NEW t \in Tasks, NEW c \in CPUs, NEW u \in Slots, kernel_clone(t, c, u)
  PROVE  Inv' /\ JoinersTold
<1>1. Fields
  BY DEF Inv
<1>2. u \in Tasks
  BY DEF Tasks
<1>3. st[u] = "new" /\ u # t
  BY <1>1, <1>2, MmAssumption DEF kernel_clone, Runs, Fields, Inv, Stations
<1>4. /\ curr[c] = t /\ st[t] = "running" /\ t \notin released
      /\ prev_mm[c] = None /\ waiting[t] = None
      /\ maker[u] = t
      /\ st' = [st EXCEPT ![u] = "ready"]
      /\ maker' = [maker EXCEPT ![u] = None]
      /\ \/ UNCHANGED <<vfork_done, waiting, done>>
         \/ /\ vfork_done' = [y \in Tasks |-> IF y = u THEN t ELSE vfork_done[y]]
            /\ waiting' = [y \in Tasks |-> IF y = t THEN u ELSE waiting[y]]
            /\ done' = done \ {t}
      /\ UNCHANGED <<released, kthread, mm, active_mm, curr, prev_mm, mm_users, mm_count, mmst,
                     work, owner, observed, oom>>
  BY <1>1, <1>2, <1>3, MmAssumption
     DEF kernel_clone, Runs, SetCounts, Counts, taskVars, mmVars, vforkVars, Fields
<1>5. \E v \in {"none", "set"} : tid' = [y \in Tasks |-> IF y = u THEN v ELSE tid[y]]
  <2>1. PICK v \in {"none"} \cup ({"set"} \cap uses) : tid' = [tid EXCEPT ![u] = v]
    BY DEF kernel_clone
  <2>2. v \in {"none", "set"} /\ tid' = [y \in Tasks |-> IF y = u THEN v ELSE tid[y]]
    BY <1>1, <2>1 DEF Fields
  <2> QED BY <2>2
<1>6. Fields'
  BY <1>1, <1>2, <1>3, <1>4, <1>5 DEF Fields
<1>7. OnCpu'
  BY <1>1, <1>2, <1>3, <1>4, <1>5 DEF Inv, Fields, OnCpu, Stations, Spaces
<1>8. Stations'
  BY <1>1, <1>2, <1>3, <1>4, <1>5 DEF Inv, Fields, Stations, OnCpu, Spaces
<1>9. Spaces'
  BY <1>1, <1>2, <1>3, <1>4, <1>5, MmAssumption DEF Inv, Fields, Spaces, Stations, OnCpu
<1>10. Vforks'
  BY <1>1, <1>2, <1>3, <1>4, <1>5, MmAssumption DEF Inv, Fields, Vforks, Stations, OnCpu, Spaces
<1>11. JoinersTold
  BY <1>1, <1>2, <1>3, <1>4, <1>5, Alive DEF JoinersTold
<1>12. Counted' /\ Stages' /\ Owners'
  BY <1>4, <1>5
     DEF Inv, Counted, Stages, Owners, Users, References, One, using, borrowing, borrowed,
         switching
<1> QED BY <1>6, <1>7, <1>8, <1>9, <1>10, <1>11, <1>12 DEF Inv

LEMMA WaitForVforkDoneKeeps ==
  ASSUME Inv, NEW t \in Tasks, wait_for_vfork_done(t)
  PROVE  Inv' /\ JoinersTold
<1>1. Fields
  BY DEF Inv
<1>2. PICK p \in Tasks : p = waiting[t]
  BY <1>1 DEF wait_for_vfork_done, Fields
<1>3. /\ st[t] \in {"running", "ready"}
      /\ vfork_done' = [vfork_done EXCEPT ![p] = IF t \notin done THEN None ELSE @]
      /\ waiting' = [waiting EXCEPT ![t] = None]
      /\ done' = done \ {t}
      /\ UNCHANGED <<st, maker, released, kthread, mm, active_mm, curr, prev_mm, mm_users,
                     mm_count, mmst, work, owner, observed, oom, tid>>
  BY <1>1, <1>2
     DEF wait_for_vfork_done, Runs, SetCounts, Counts, taskVars, mmVars, vforkVars, Fields
<1>4. Fields'
  BY <1>1, <1>2, <1>3 DEF Fields
<1>5. Vforks'
  BY <1>1, <1>2, <1>3, MmAssumption DEF Inv, Fields, Vforks, Stations, OnCpu, Spaces
<1>6. OnCpu' /\ Stations' /\ Spaces' /\ Counted' /\ Stages' /\ Owners' /\ JoinersTold
  BY <1>3
     DEF Inv, OnCpu, Stations, Spaces, Counted, Stages, Owners, JoinersTold, Users, References,
         One, using, borrowing, borrowed, switching
<1> QED BY <1>4, <1>5, <1>6 DEF Inv

LEMMA ExitMmReleaseKeeps ==
  ASSUME Inv, NEW t \in Tasks, NEW c \in CPUs, exit_mm_release(t, c)
  PROVE  Inv' /\ JoinersTold
<1>1. Fields
  BY DEF Inv
<1>2. /\ curr[c] = t /\ st[t] = "running" /\ t \notin released
      /\ prev_mm[c] = None /\ waiting[t] = None
      /\ t \in kthread => mm[t] = None
      /\ vfork_done' = [vfork_done EXCEPT ![t] = None]
      /\ done' = IF vfork_done[t] # None THEN done \cup {vfork_done[t]} ELSE done
      /\ released' = released \cup {t}
      /\ tid' \in [Tasks -> {"none", "set", "cleared", "stale", "kept"}]
      /\ \A y \in Tasks : tid[y] = "set" /\ tid'[y] = "stale" =>
           y = t /\ mm[t] # None /\ ~(mm_users[mm[t]] > 1)
      /\ UNCHANGED <<st, maker, kthread, mm, active_mm, curr, prev_mm, mm_users, mm_count, mmst,
                     work, owner, observed, oom, waiting>>
  BY <1>1
     DEF exit_mm_release, Runs, SetCounts, Counts, taskVars, mmVars, vforkVars, Fields,
         complete_vfork_done, mm_release, clear_child_tid
<1>3. Fields'
  BY <1>1, <1>2 DEF Fields
<1>4. Stations'
  BY <1>1, <1>2 DEF Inv, Fields, Stations, OnCpu, Spaces
<1>5. Vforks'
  BY <1>1, <1>2, MmAssumption DEF Inv, Fields, Vforks, Stations, OnCpu, Spaces
<1>6. JoinersTold
  BY <1>1, <1>2, Alive DEF JoinersTold
<1>7. OnCpu' /\ Spaces' /\ Counted' /\ Stages' /\ Owners'
  BY <1>2
     DEF Inv, OnCpu, Spaces, Counted, Stages, Owners, Users, References, One, using, borrowing,
         borrowed, switching
<1> QED BY <1>3, <1>4, <1>5, <1>6, <1>7 DEF Inv

LEMMA ExitMmKeeps ==
  ASSUME Inv, NEW t \in Tasks, NEW c \in CPUs, exit_mm(t, c)
  PROVE  Inv' /\ JoinersTold
<1>1. Fields
  BY DEF Inv
<1>2. /\ curr[c] = t /\ prev_mm[c] = None /\ t \in released
      /\ st' = [st EXCEPT ![t] = "dead"]
      /\ mm' = [y \in Tasks |-> IF y = t THEN None ELSE mm[y]]
      /\ owner' = [n \in MMs |-> IF n = mm[t] THEN NextOwner(mm[t], t) ELSE owner[n]]
      /\ released' = released \ {t}
      /\ UNCHANGED <<maker, kthread, active_mm, curr, prev_mm, observed, oom, vfork_done, waiting,
                     done, tid>>
  BY <1>1, MmAssumption DEF exit_mm, Runs, taskVars, mmVars, vforkVars, Fields, SetCounts
<1>3. /\ mm_users' = [n \in MMs |-> IF n = mm[t] THEN mm_users[n] - 1 ELSE mm_users[n]]
      /\ mm_count' = [n \in MMs |-> IF n = mm[t] THEN mm_count[n] + 1 ELSE mm_count[n]]
      /\ work' = [n \in MMs |-> IF n = mm[t] /\ mm_users[n] = 1 THEN "mmput" ELSE work[n]]
      /\ UNCHANGED <<mmst>>
  <2>1. CASE mm[t] = None
    <3>1. SetCounts(Counts)
      BY <1>1, <2>1 DEF exit_mm, SetCounts, Counts
    <3> QED BY <1>1, <2>1, <3>1, NothingSet, MmAssumption DEF Fields
  <2>2. CASE mm[t] # None
    <3>1. PICK m \in MMs : m = mm[t]
      BY <1>1, <2>2 DEF Fields
    <3>2. SetCounts(mmput(mmgrab(Counts, m), m))
      BY <1>1, <2>2, <3>1 DEF exit_mm, SetCounts, Counts
    <3> QED BY <1>1, <3>1, <3>2, PutGrabSet
  <2> QED BY <2>1, <2>2
<1>4. \A n \in MMs : using'[n] = using[n] + Is(mm'[t], n) - Is(mm[t], n)
  <2>1. Agree(Tasks, {t}, mm, mm')
    BY <1>1, <1>2, <1>3 DEF Agree, Fields
  <2> QED BY <1>1, <2>1, UserMoves
<1>5. borrowed'[t] = active_mm[t] /\ borrowed[t] = (IF mm[t] = None THEN active_mm[t] ELSE None)
      /\ (mm[t] # None => active_mm[t] = mm[t])
  BY <1>1, <1>2, <1>3 DEF borrowed, Inv, Fields, Stations, Spaces
<1>6. \A n \in MMs : borrowing'[n] = borrowing[n] + Is(borrowed'[t], n) - Is(borrowed[t], n)
  <2>1. Agree(Tasks, {t}, borrowed, borrowed')
    BY <1>1, <1>2, <1>3 DEF Agree, borrowed, Fields
  <2> QED BY <1>1, <2>1, BorrowerMoves
<1>7. switching' = switching
  BY <1>2, <1>3 DEF switching
<1>8. Fields'
  BY <1>1, <1>2, <1>3, NextOwnerUses DEF Fields
<1>9. OnCpu'
  BY <1>1, <1>2, <1>3 DEF Inv, Fields, OnCpu, Stations, Spaces
<1>10. Stations'
  BY <1>1, <1>2, <1>3 DEF Inv, Fields, Stations, OnCpu, Spaces
<1>11. Spaces'
  BY <1>1, <1>2, <1>3, MmAssumption DEF Inv, Fields, Spaces, Stations, OnCpu
<1>12. Counted'
  <2> SUFFICES ASSUME NEW n \in MMs
               PROVE  mm_users'[n] = Users(n)' /\ mm_count'[n] = References(n)'
    BY DEF Counted
  <2>1. ReferencesBalance(n)
    BY InBalance
  <2>2. mm_users'[n] = Users(n)'
    BY <1>1, <1>2, <1>3, <1>4, <1>5, <1>6, <1>7, InBalance, MmAssumption
       DEF UsersBalance, Users, One, Is, Fields
  <2>3. /\ mm_users'[n] = IF n = mm[t] THEN mm_users[n] - 1 ELSE mm_users[n]
        /\ mm_count'[n] = IF n = mm[t] THEN mm_count[n] + 1 ELSE mm_count[n]
        /\ work'[n] = IF n = mm[t] /\ mm_users[n] = 1 THEN "mmput" ELSE work[n]
        /\ borrowing'[n] = IF n = mm[t] THEN borrowing[n] + 1 ELSE borrowing[n]
        /\ n = mm[t] => mm_users[n] > 0
        /\ UNCHANGED <<oom, switching>>
    BY <1>1, <1>2, <1>3, <1>5, <1>6, <1>7, <2>1, MmAssumption DEF ReferencesBalance, Is, Fields
  <2>4. CASE n = mm[t]
    BY <2>2, <2>4, <2>3, <2>1 DEF ReferencesBalance, References, One
  <2>5. CASE n # mm[t]
    BY <2>2, <2>5, <2>3, <2>1 DEF ReferencesBalance, References, One
  <2> QED BY <2>2, <2>4, <2>5
<1>13. Stages'
  BY <1>1, <1>2, <1>3, Alive, Holders, MmAssumption
     DEF Inv, Fields, Counted, Users, References, Stages, One
<1>14. Owners'
  BY <1>1, <1>2, <1>3, Alive, MmAssumption, NextOwnerUses
     DEF Inv, Fields, Owners, Stations, OnCpu, Spaces
<1>15. Vforks'
  BY <1>1, <1>2, <1>3, MmAssumption DEF Inv, Fields, Vforks, Stations, OnCpu, Spaces
<1>16. JoinersTold
  BY <1>2, <1>3 DEF Inv, JoinersTold
<1> QED BY <1>8, <1>9, <1>10, <1>11, <1>12, <1>13, <1>14, <1>15, <1>16 DEF Inv

LEMMA ExecMmapOfKthreadKeeps ==
  ASSUME Inv, NEW t \in Tasks, NEW c \in CPUs, mm[t] = None, exec_mmap(t, c)
  PROVE  Inv' /\ JoinersTold
<1>1. Fields
  BY DEF Inv
<1>2. PICK m \in MMs : m = (CHOOSE n \in MMs : mmst[n] = "free") /\ mmst[m] = "free"
  BY DEF exec_mmap
<1>3. PICK b : b = active_mm[t]
  OBVIOUS
<1>4. b \in MMs \ {m} /\ borrowed[t] = b
  BY <1>1, <1>2, <1>3, Alive, MmAssumption DEF borrowed, Fields, Inv, Spaces, exec_mmap, Runs
<1>5. /\ curr[c] = t /\ st[t] = "running" /\ t \notin released
      /\ prev_mm[c] = None /\ waiting[t] = None
      /\ mm[t] = None
      /\ vfork_done' = [vfork_done EXCEPT ![t] = None]
      /\ mm' = [y \in Tasks |-> IF y = t THEN m ELSE mm[y]]
      /\ active_mm' = [y \in Tasks |-> IF y = t THEN m ELSE active_mm[y]]
      /\ owner' = [n \in MMs |-> IF n = m THEN t ELSE owner[n]]
      /\ done' = IF vfork_done[t] # None THEN done \cup {vfork_done[t]} ELSE done
      /\ kthread' = kthread \ {t}
      /\ UNCHANGED <<st, maker, released, curr, prev_mm, observed, oom, waiting, tid>>
  BY <1>1, <1>2, <1>3, <1>4
     DEF exec_mmap, Runs, taskVars, mmVars, vforkVars, Fields, SetCounts, complete_vfork_done
<1>6. /\ mm_users' = [n \in MMs |-> IF n = m THEN 1 ELSE mm_users[n]]
      /\ mm_count' = [n \in MMs |-> IF n = m THEN 1
                                    ELSE IF n = b THEN mm_count[n] - 1 ELSE mm_count[n]]
      /\ mmst' = [n \in MMs |-> IF n = m THEN "used"
                              ELSE IF n = b /\ mm_count[n] = 1 THEN "free" ELSE mmst[n]]
      /\ UNCHANGED <<work>>
  <2>1. SetCounts(mmdrop(MmInit(m), b))
    BY <1>1, <1>2, <1>3, <1>4 DEF exec_mmap
  <2> QED BY <1>1, <1>2, <1>3, <1>4, <2>1, InitDropSet
<1>7. \A n \in MMs : using'[n] = using[n] + Is(mm'[t], n) - Is(mm[t], n)
  <2>1. Agree(Tasks, {t}, mm, mm')
    BY <1>1, <1>5, <1>6 DEF Agree, Fields
  <2> QED BY <1>1, <1>2, <1>3, <1>4, <2>1, UserMoves
<1>8. borrowed[t] = b /\ borrowed'[t] = None
  BY <1>1, <1>2, <1>3, <1>4, <1>5, <1>6 DEF borrowed, Inv, Fields, Stations, Spaces
<1>9. \A n \in MMs : borrowing'[n] = borrowing[n] + Is(borrowed'[t], n) - Is(borrowed[t], n)
  <2>1. Agree(Tasks, {t}, borrowed, borrowed')
    BY <1>1, <1>5, <1>6 DEF Agree, borrowed, Fields
  <2> QED BY <1>1, <1>2, <1>3, <1>4, <2>1, BorrowerMoves
<1>10. switching' = switching
  BY <1>5, <1>6 DEF switching
<1>11. Fields'
  BY <1>1, <1>2, <1>3, <1>4, <1>5, <1>6 DEF Fields
<1>12. Stations'
  BY <1>1, <1>2, <1>3, <1>4, <1>5, <1>6 DEF Inv, Fields, Stations, OnCpu, Spaces
<1>13. Spaces'
  BY <1>1, <1>2, <1>3, <1>4, <1>5, <1>6, MmAssumption, Alive
     DEF Inv, Fields, Spaces, Stations, OnCpu
<1>14. Counted'
  <2> SUFFICES ASSUME NEW n \in MMs
               PROVE  mm_users'[n] = Users(n)' /\ mm_count'[n] = References(n)'
    BY DEF Counted
  <2>1. ReferencesBalance(n)
    BY InBalance
  <2>2. mm_users'[n] = Users(n)'
    BY <1>1, <1>2, <1>3, <1>4, <1>5, <1>6, <1>7, <1>8, <1>9, <1>10, InBalance, MmAssumption
       DEF UsersBalance, Users, One, Is, Fields
  <2>3. mm_count'[n] = References(n)'
    BY <1>1, <1>2, <1>3, <1>4, <1>5, <1>6, <1>7, <1>8, <1>9, <1>10, <2>1, MmAssumption
       DEF ReferencesBalance, References, One, Is, Fields
  <2> QED BY <2>2, <2>3
<1>15. Stages'
  <2>1. ASSUME NEW n \in MMs
        PROVE  /\ mmst'[n] = "used" <=> mm_users'[n] > 0 \/ work'[n] = "mmput"
               /\ mmst'[n] = "free" <=> mm_count'[n] = 0 /\ work'[n] = "none"
               /\ work'[n] = "mmput" => mm_users'[n] = 0
               /\ work'[n] = "mmdrop" => mm_count'[n] = 0
    <3>1. /\ mmst[n] = "used" <=> mm_users[n] > 0 \/ work[n] = "mmput"
          /\ mmst[n] = "free" <=> mm_count[n] = 0 /\ work[n] = "none"
          /\ work[n] = "mmput" => mm_users[n] = 0
          /\ work[n] = "mmdrop" => mm_count[n] = 0
      BY DEF Inv, Stages
    <3>2. mm_users[n] \in Nat /\ mm_count[n] \in Nat /\ (mm_users[n] > 0 => mm_count[n] > 0)
      BY Alive
    <3>3. mmst[n] \in {"free", "used", "exited"} /\ work[n] \in {"none", "mmput", "mmdrop"}
      BY <1>1 DEF Fields
    <3>4. mm_count[b] > 0 /\ (mm_users[b] > 0 \/ work[b] = "mmput" => mm_count[b] > 1)
      BY <1>1, <1>4, Alive, Holders, MmAssumption DEF Inv, Counted, Users, References, One, Fields
    <3> QED BY <1>2, <1>3, <1>4, <1>5, <1>6, <3>1, <3>2, <3>3, <3>4
  <2> QED BY <2>1 DEF Stages
<1>16. Owners'
  BY <1>1, <1>2, <1>3, <1>4, <1>5, <1>6, Alive, MmAssumption
     DEF Inv, Fields, Owners, Stations, OnCpu, Spaces
<1>17. Vforks'
  BY <1>1, <1>2, <1>3, <1>4, <1>5, <1>6, MmAssumption
     DEF Inv, Fields, Vforks, Stations, OnCpu, Spaces
<1>18. OnCpu' /\ JoinersTold
  BY <1>5, <1>6 DEF Inv, OnCpu, JoinersTold
<1> QED BY <1>11, <1>12, <1>13, <1>14, <1>15, <1>16, <1>17, <1>18 DEF Inv

LEMMA ExecMmapKeeps ==
  ASSUME Inv, NEW t \in Tasks, NEW c \in CPUs, mm[t] # None, exec_mmap(t, c)
  PROVE  Inv' /\ JoinersTold
<1>1. Fields
  BY DEF Inv
<1>2. PICK m \in MMs : m = (CHOOSE n \in MMs : mmst[n] = "free") /\ mmst[m] = "free"
  BY DEF exec_mmap
<1>3. PICK x : x = mm[t]
  OBVIOUS
<1>4. x \in MMs \ {m}
  BY <1>1, <1>2, <1>3, Alive DEF Fields
<1>5. /\ curr[c] = t /\ st[t] = "running" /\ t \notin released
      /\ prev_mm[c] = None /\ waiting[t] = None
      /\ t \notin kthread
      /\ vfork_done' = [vfork_done EXCEPT ![t] = None]
      /\ mm' = [y \in Tasks |-> IF y = t THEN m ELSE mm[y]]
      /\ active_mm' = [y \in Tasks |-> IF y = t THEN m ELSE active_mm[y]]
      /\ done' = IF vfork_done[t] # None THEN done \cup {vfork_done[t]} ELSE done
      /\ kthread' = kthread \ {t}
      /\ UNCHANGED <<st, maker, released, curr, prev_mm, observed, oom, waiting>>
  BY <1>1, <1>2, <1>3, <1>4
     DEF exec_mmap, Runs, taskVars, mmVars, vforkVars, Fields, SetCounts, complete_vfork_done,
         mm_release, clear_child_tid
<1>6. owner' = [n \in MMs |-> IF n = m THEN t ELSE IF n = x THEN NextOwner(x, t) ELSE owner[n]]
  BY <1>1, <1>2, <1>3, <1>4 DEF exec_mmap, Fields
<1>7. tid' \in [Tasks -> {"none", "set", "cleared", "stale", "kept"}]
      /\ \A y \in Tasks : tid[y] = "set" /\ tid'[y] = "stale" =>
           y = t /\ mm[t] # None /\ ~(mm_users[mm[t]] > 1)
  BY <1>1, <1>2, <1>3, <1>4 DEF exec_mmap, mm_release, clear_child_tid, Fields
<1>8. /\ mm_users' = [n \in MMs |-> IF n = m THEN 1
                                    ELSE IF n = x THEN mm_users[n] - 1 ELSE mm_users[n]]
      /\ mm_count' = [n \in MMs |-> IF n = m THEN 1 ELSE mm_count[n]]
      /\ mmst' = [n \in MMs |-> IF n = m THEN "used" ELSE mmst[n]]
      /\ work' = [n \in MMs |-> IF n = x /\ mm_users[n] = 1 THEN "mmput" ELSE work[n]]
  <2>1. SetCounts(mmput(MmInit(m), x))
    BY <1>1, <1>2, <1>3, <1>4 DEF exec_mmap
  <2> QED BY <1>1, <1>2, <1>3, <1>4, <2>1, InitPutSet
<1>9. \A n \in MMs : using'[n] = using[n] + Is(mm'[t], n) - Is(mm[t], n)
  <2>1. Agree(Tasks, {t}, mm, mm')
    BY <1>1, <1>5, <1>6, <1>7, <1>8 DEF Agree, Fields
  <2> QED BY <1>1, <1>2, <1>3, <1>4, <2>1, UserMoves
<1>10. borrowing' = borrowing
  <2>1. borrowed' = borrowed
    <3>1. ASSUME NEW y \in Tasks
          PROVE  (IF mm'[y] = None \/ y \in kthread' THEN active_mm'[y] ELSE None)
                   = (IF mm[y] = None \/ y \in kthread THEN active_mm[y] ELSE None)
      BY <1>2, <1>3, <1>4, <1>5, MmAssumption
    <3> QED BY <3>1 DEF borrowed
  <2> QED BY <2>1 DEF borrowing
<1>11. switching' = switching
  BY <1>5, <1>6, <1>7, <1>8 DEF switching
<1>12. Fields'
  <2>1. owner' \in [MMs -> Tasks \cup {None}]
    BY <1>1, <1>2, <1>3, <1>4, <1>5, <1>6, <1>7, <1>8, NextOwnerUses DEF Fields
  <2>2. mm' \in [Tasks -> MMs \cup {None}] /\ active_mm' \in [Tasks -> MMs \cup {None}]
    BY <1>1, <1>2, <1>3, <1>4, <1>5, <1>6, <1>7, <1>8 DEF Fields
  <2>3. vfork_done' \in [Tasks -> Tasks \cup {None}] /\ done' \subseteq Tasks
    BY <1>1, <1>2, <1>3, <1>4, <1>5, <1>6, <1>7, <1>8 DEF Fields
  <2>4. /\ mm_users' \in [MMs -> Int] /\ mm_count' \in [MMs -> Int]
        /\ mmst' \in [MMs -> {"free", "used", "exited"}]
        /\ work' \in [MMs -> {"none", "mmput", "mmdrop"}]
    BY <1>1, <1>2, <1>3, <1>4, <1>5, <1>6, <1>7, <1>8 DEF Fields
  <2> QED BY <1>1, <1>2, <1>3, <1>4, <1>5, <1>6, <1>7, <1>8, <2>1, <2>2, <2>3, <2>4 DEF Fields
<1>13. Stations'
  BY <1>1, <1>2, <1>3, <1>4, <1>5, <1>6, <1>7, <1>8 DEF Inv, Fields, Stations, OnCpu, Spaces
<1>14. Spaces'
  BY <1>1, <1>2, <1>3, <1>4, <1>5, <1>6, <1>7, <1>8, MmAssumption, Alive
     DEF Inv, Fields, Spaces, Stations, OnCpu
<1>15. Counted'
  <2> SUFFICES ASSUME NEW n \in MMs
               PROVE  mm_users'[n] = Users(n)' /\ mm_count'[n] = References(n)'
    BY DEF Counted
  <2>1. ReferencesBalance(n)
    BY InBalance
  <2>2. mm_users'[n] = Users(n)'
    BY <1>1, <1>2, <1>3, <1>4, <1>5, <1>6, <1>7, <1>8, <1>9, <1>10, <1>11, InBalance, MmAssumption
       DEF UsersBalance, Users, One, Is, Fields
  <2>3. mm_count'[n] = References(n)'
    BY <1>1, <1>2, <1>3, <1>4, <1>5, <1>6, <1>7, <1>8, <1>9, <1>10, <1>11, <2>1, MmAssumption
       DEF ReferencesBalance, References, One, Is, Fields
  <2> QED BY <2>2, <2>3
<1>16. Stages'
  BY <1>1, <1>2, <1>3, <1>4, <1>5, <1>6, <1>7, <1>8, Alive, Holders, MmAssumption
     DEF Inv, Fields, Counted, Users, References, Stages, One
<1>17. Owners'
  BY <1>1, <1>2, <1>3, <1>4, <1>5, <1>6, <1>7, <1>8, Alive, MmAssumption, NextOwnerUses
     DEF Inv, Fields, Owners, Stations, OnCpu, Spaces
<1>18. Vforks'
  BY <1>1, <1>2, <1>3, <1>4, <1>5, <1>6, <1>7, <1>8, MmAssumption
     DEF Inv, Fields, Vforks, Stations, OnCpu, Spaces
<1>19. JoinersTold
  BY <1>1, <1>2, <1>3, <1>4, <1>5, <1>6, <1>7, <1>8, Alive DEF JoinersTold
<1>20. OnCpu'
  BY <1>5, <1>6, <1>7, <1>8 DEF Inv, OnCpu
<1> QED BY <1>12, <1>13, <1>14, <1>15, <1>16, <1>17, <1>18, <1>19, <1>20 DEF Inv

LEMMA KthreadUseMmKeeps ==
  ASSUME Inv, NEW t \in Tasks, NEW c \in CPUs, NEW m \in MMs, kthread_use_mm(t, c, m)
  PROVE  Inv' /\ JoinersTold
<1>1. Fields
  BY DEF Inv
<1>2. PICK b : b = active_mm[t]
  OBVIOUS
<1>3. b \in MMs /\ borrowed[t] = b
  BY <1>1, <1>2, MmAssumption DEF borrowed, Fields, Inv, Spaces, kthread_use_mm, Runs
<1>4. /\ curr[c] = t /\ st[t] = "running" /\ t \notin released
      /\ prev_mm[c] = None /\ waiting[t] = None
      /\ mm[t] = None /\ t \in kthread /\ m # init_mm /\ mm_users[m] > 0
      /\ mm' = [y \in Tasks |-> IF y = t THEN m ELSE mm[y]]
      /\ active_mm' = [y \in Tasks |-> IF y = t THEN m ELSE active_mm[y]]
      /\ UNCHANGED <<st, maker, released, kthread, curr, prev_mm, owner, observed, oom,
                     vfork_done, waiting, done, tid>>
  BY <1>1, <1>2, <1>3 DEF kthread_use_mm, Runs, taskVars, mmVars, vforkVars, Fields, SetCounts
<1>5. /\ mm_users' = [n \in MMs |-> IF n = m THEN mm_users[n] + 1 ELSE mm_users[n]]
      /\ mm_count' = [n \in MMs |-> IF b = m THEN mm_count[n]
                              ELSE IF n = m THEN mm_count[n] + 1
                              ELSE IF n = b THEN mm_count[n] - 1 ELSE mm_count[n]]
      /\ mmst' = [n \in MMs |-> IF n = b /\ b # m /\ mm_count[n] = 1 THEN "free" ELSE mmst[n]]
      /\ UNCHANGED <<work>>
  <2>1. CASE b = m
    <3>1. SetCounts(mmget(Counts, m))
      BY <1>1, <1>2, <1>3, <2>1 DEF kthread_use_mm
    <3> QED BY <1>1, <2>1, <3>1, GetSet DEF Fields
  <2>2. CASE b # m
    <3>1. SetCounts(mmdrop(mmgrab(mmget(Counts, m), m), b))
      BY <1>1, <1>2, <1>3, <2>2 DEF kthread_use_mm
    <3>2. b \in MMs \ {m}
      BY <1>3, <2>2
    <3>3. /\ mm_users' = [n \in MMs |-> IF n = m THEN mm_users[n] + 1 ELSE mm_users[n]]
          /\ mm_count' = [n \in MMs |-> IF n = m THEN mm_count[n] + 1 
                                        ELSE IF n = b THEN mm_count[n] - 1 ELSE mm_count[n]]
          /\ mmst' = [n \in MMs |-> IF n = b /\ mm_count[n] = 1 THEN "free" ELSE mmst[n]]
          /\ work' = work
      BY <1>1, <3>1, <3>2, UseSet
    <3> QED BY <2>2, <3>3
  <2> QED BY <2>1, <2>2
<1>6. \A n \in MMs : using'[n] = using[n] + Is(mm'[t], n) - Is(mm[t], n)
  <2>1. Agree(Tasks, {t}, mm, mm')
    BY <1>1, <1>4, <1>5 DEF Agree, Fields
  <2> QED BY <1>1, <1>2, <1>3, <2>1, UserMoves
<1>7. borrowed[t] = b /\ borrowed'[t] = m
  BY <1>1, <1>2, <1>3, <1>4, <1>5 DEF borrowed, Inv, Fields, Stations, Spaces
<1>8. \A n \in MMs : borrowing'[n] = borrowing[n] + Is(borrowed'[t], n) - Is(borrowed[t], n)
  <2>1. Agree(Tasks, {t}, borrowed, borrowed')
    BY <1>1, <1>4, <1>5 DEF Agree, borrowed, Fields
  <2> QED BY <1>1, <1>2, <1>3, <2>1, BorrowerMoves
<1>9. switching' = switching
  BY <1>4, <1>5 DEF switching
<1>10. Fields'
  BY <1>1, <1>2, <1>3, <1>4, <1>5 DEF Fields
<1>11. Stations'
  BY <1>1, <1>2, <1>3, <1>4, <1>5 DEF Inv, Fields, Stations, OnCpu, Spaces
<1>12. Spaces'
  BY <1>1, <1>2, <1>3, <1>4, <1>5, MmAssumption DEF Inv, Fields, Spaces, Stations, OnCpu
<1>13. Counted'
  <2> SUFFICES ASSUME NEW n \in MMs
               PROVE  mm_users'[n] = Users(n)' /\ mm_count'[n] = References(n)'
    BY DEF Counted
  <2>1. ReferencesBalance(n)
    BY InBalance
  <2>2. mm_users'[n] = Users(n)'
    BY <1>1, <1>2, <1>3, <1>4, <1>5, <1>6, <1>7, <1>8, <1>9, InBalance, MmAssumption
       DEF UsersBalance, Users, One, Is, Fields
  <2>3. CASE n = m /\ n = b
    BY <2>2, <2>3, <1>1, <1>2, <1>3, <1>4, <1>5, <1>6, <1>7, <1>8, <1>9, <2>1, MmAssumption
       DEF ReferencesBalance, References, One, Is, Fields
  <2>4. CASE n = m /\ n # b
    BY <2>2, <2>4, <1>1, <1>2, <1>3, <1>4, <1>5, <1>6, <1>7, <1>8, <1>9, <2>1, MmAssumption
       DEF ReferencesBalance, References, One, Is, Fields
  <2>5. CASE n # m /\ n = b
    BY <2>2, <2>5, <1>1, <1>2, <1>3, <1>4, <1>5, <1>6, <1>7, <1>8, <1>9, <2>1, MmAssumption
       DEF ReferencesBalance, References, One, Is, Fields
  <2>6. CASE n # m /\ n # b
    BY <2>2, <2>6, <1>1, <1>2, <1>3, <1>4, <1>5, <1>6, <1>7, <1>8, <1>9, <2>1, MmAssumption
       DEF ReferencesBalance, References, One, Is, Fields
  <2> QED BY <2>2, <2>3, <2>4, <2>5, <2>6
<1>14. Stages'
  <2>1. ASSUME NEW n \in MMs
        PROVE  /\ mmst'[n] = "used" <=> mm_users'[n] > 0 \/ work'[n] = "mmput"
               /\ mmst'[n] = "free" <=> mm_count'[n] = 0 /\ work'[n] = "none"
               /\ work'[n] = "mmput" => mm_users'[n] = 0
               /\ work'[n] = "mmdrop" => mm_count'[n] = 0
    <3>1. /\ mmst[n] = "used" <=> mm_users[n] > 0 \/ work[n] = "mmput"
          /\ mmst[n] = "free" <=> mm_count[n] = 0 /\ work[n] = "none"
          /\ work[n] = "mmput" => mm_users[n] = 0
          /\ work[n] = "mmdrop" => mm_count[n] = 0
      BY DEF Inv, Stages
    <3>2. mm_users[n] \in Nat /\ mm_count[n] \in Nat /\ (mm_users[n] > 0 => mm_count[n] > 0)
      BY Alive
    <3>3. mmst[n] \in {"free", "used", "exited"} /\ work[n] \in {"none", "mmput", "mmdrop"}
      BY <1>1 DEF Fields
    <3>4. mm_count[b] > 0 /\ (mm_users[b] > 0 \/ work[b] = "mmput" => mm_count[b] > 1)
      BY <1>1, <1>3, Alive, Holders, MmAssumption DEF Inv, Counted, Users, References, One, Fields
    <3> QED BY <1>2, <1>3, <1>4, <1>5, <3>1, <3>2, <3>3, <3>4
  <2> QED BY <2>1 DEF Stages
<1>15. Owners'
  BY <1>1, <1>2, <1>3, <1>4, <1>5, Alive, MmAssumption
     DEF Inv, Fields, Owners, Stations, OnCpu, Spaces
<1>16. OnCpu' /\ Vforks' /\ JoinersTold
  BY <1>4, <1>5 DEF Inv, OnCpu, Vforks, JoinersTold
<1> QED BY <1>10, <1>11, <1>12, <1>13, <1>14, <1>15, <1>16 DEF Inv

LEMMA KthreadUnuseMmKeeps ==
  ASSUME Inv, NEW t \in Tasks, NEW c \in CPUs, kthread_unuse_mm(t, c)
  PROVE  Inv' /\ JoinersTold
<1>1. Fields
  BY DEF Inv
<1>2. PICK x \in MMs : x = mm[t]
  BY <1>1 DEF kthread_unuse_mm, Fields
<1>3. /\ curr[c] = t /\ st[t] = "running" /\ t \notin released
      /\ prev_mm[c] = None /\ waiting[t] = None
      /\ t \in kthread
      /\ mm' = [y \in Tasks |-> IF y = t THEN None ELSE mm[y]]
      /\ UNCHANGED <<st, maker, released, kthread, active_mm, curr, prev_mm, owner, observed, oom,
                     vfork_done, waiting, done, tid>>
  BY <1>1, <1>2 DEF kthread_unuse_mm, Runs, taskVars, mmVars, vforkVars, Fields, SetCounts
<1>4. /\ mm_users' = [n \in MMs |-> IF n = x THEN mm_users[n] - 1 ELSE mm_users[n]]
      /\ work' = [n \in MMs |-> IF n = x /\ mm_users[n] = 1 THEN "mmput" ELSE work[n]]
      /\ UNCHANGED <<mm_count, mmst>>
  <2>1. SetCounts(mmput(Counts, x))
    BY <1>1, <1>2 DEF kthread_unuse_mm
  <2> QED BY <1>1, <1>2, <2>1, PutSet
<1>5. \A n \in MMs : using'[n] = using[n] + Is(mm'[t], n) - Is(mm[t], n)
  <2>1. Agree(Tasks, {t}, mm, mm')
    BY <1>1, <1>3, <1>4 DEF Agree, Fields
  <2> QED BY <1>1, <1>2, <2>1, UserMoves
<1>6. borrowing' = borrowing
  <2>1. borrowed' = borrowed
    BY <1>1, <1>2, <1>3, <1>4 DEF borrowed, Fields, Inv, Stations, Spaces
  <2> QED BY <2>1 DEF borrowing
<1>7. switching' = switching
  BY <1>3, <1>4 DEF switching
<1>8. Fields'
  BY <1>1, <1>2, <1>3, <1>4 DEF Fields
<1>9. Stations'
  BY <1>1, <1>2, <1>3, <1>4 DEF Inv, Fields, Stations, OnCpu, Spaces
<1>10. Spaces'
  BY <1>1, <1>2, <1>3, <1>4, MmAssumption DEF Inv, Fields, Spaces, Stations, OnCpu
<1>11. Counted'
  <2> SUFFICES ASSUME NEW n \in MMs
               PROVE  mm_users'[n] = Users(n)' /\ mm_count'[n] = References(n)'
    BY DEF Counted
  <2>1. ReferencesBalance(n)
    BY InBalance
  <2>2. mm_users'[n] = Users(n)'
    BY <1>1, <1>2, <1>3, <1>4, <1>5, <1>6, <1>7, InBalance, MmAssumption
       DEF UsersBalance, Users, One, Is, Fields
  <2>3. /\ mm_users'[n] = IF n = x THEN mm_users[n] - 1 ELSE mm_users[n]
        /\ work'[n] = IF n = x /\ mm_users[n] = 1 THEN "mmput" ELSE work[n]
        /\ n = x => mm_users[n] > 0
        /\ UNCHANGED <<mm_count, oom, borrowing, switching>>
    BY <1>1, <1>2, <1>3, <1>4, <1>6, <1>7, <2>1 DEF ReferencesBalance
  <2>4. CASE n = x
    BY <2>2, <2>4, <2>3, <2>1 DEF ReferencesBalance, References, One
  <2>5. CASE n # x
    BY <2>2, <2>5, <2>3, <2>1 DEF ReferencesBalance, References, One
  <2> QED BY <2>2, <2>4, <2>5
<1>12. Stages'
  <2>1. ASSUME NEW n \in MMs
        PROVE  /\ mmst'[n] = "used" <=> mm_users'[n] > 0 \/ work'[n] = "mmput"
               /\ mmst'[n] = "free" <=> mm_count'[n] = 0 /\ work'[n] = "none"
               /\ work'[n] = "mmput" => mm_users'[n] = 0
               /\ work'[n] = "mmdrop" => mm_count'[n] = 0
    <3>1. /\ mmst[n] = "used" <=> mm_users[n] > 0 \/ work[n] = "mmput"
          /\ mmst[n] = "free" <=> mm_count[n] = 0 /\ work[n] = "none"
          /\ work[n] = "mmput" => mm_users[n] = 0
          /\ work[n] = "mmdrop" => mm_count[n] = 0
      BY DEF Inv, Stages
    <3>2. mm_users[n] \in Nat /\ mm_count[n] \in Nat /\ (mm_users[n] > 0 => mm_count[n] > 0)
      BY Alive
    <3>3. mmst[n] \in {"free", "used", "exited"} /\ work[n] \in {"none", "mmput", "mmdrop"}
      BY <1>1 DEF Fields
    <3>4. mm_users[x] > 0
      BY <1>2, Alive, MmAssumption
    <3> QED BY <1>2, <1>3, <1>4, <3>1, <3>2, <3>3, <3>4
  <2> QED BY <2>1 DEF Stages
<1>13. Owners'
  BY <1>1, <1>2, <1>3, <1>4, Alive, MmAssumption DEF Inv, Fields, Owners, Stations, OnCpu, Spaces
<1>14. OnCpu' /\ Vforks' /\ JoinersTold
  BY <1>3, <1>4 DEF Inv, OnCpu, Vforks, JoinersTold
<1> QED BY <1>8, <1>9, <1>10, <1>11, <1>12, <1>13, <1>14 DEF Inv

LEMMA ContextSwitchKeeps ==
  ASSUME Inv, NEW c \in CPUs, NEW t \in Tasks, context_switch(c, t)
  PROVE  Inv' /\ JoinersTold
<1>1. Fields
  BY DEF Inv
<1>2. PICK p \in Tasks : p = curr[c]
  BY <1>1 DEF Fields
<1>3. p # t /\ st[p] \in {"running", "dead"}
      /\ active_mm[p] # None /\ (mm[t] = None => active_mm[t] = None)
      /\ (st[p] = "dead" => mm[p] = None) /\ (mm[p] # None => mm[p] = active_mm[p])
  BY <1>1, <1>2 DEF Inv, OnCpu, Spaces, context_switch, Runnable
<1>4. /\ prev_mm[c] = None /\ st[t] = "ready"
      /\ st' = [st EXCEPT ![p] = IF st[p] = "dead" THEN "absent" ELSE "ready", ![t] = "running"]
      /\ active_mm' = [y \in Tasks |-> IF y = t /\ mm[t] = None THEN active_mm[p]
                                        ELSE IF y = p /\ mm[p] = None THEN None ELSE active_mm[y]]
      /\ prev_mm' = [prev_mm EXCEPT ![c] =
                     IF mm[t] # None /\ mm[p] = None THEN active_mm[p] ELSE None]
      /\ curr' = [curr EXCEPT ![c] = t]
      /\ tid' = [tid EXCEPT ![p] = IF st[p] = "dead" THEN "none" ELSE @]
      /\ kthread' = IF st[p] = "dead" THEN kthread \ {p} ELSE kthread
      /\ UNCHANGED <<maker, released, mm, owner, observed, oom, vfork_done, waiting, done>>
  <2>1. active_mm' = [y \in Tasks |-> IF y = t /\ mm[t] = None THEN active_mm[p]
                                      ELSE IF y = p /\ mm[p] = None THEN None ELSE active_mm[y]]
    BY <1>1, <1>2, <1>3 DEF context_switch
  <2>2. /\ st' = [st EXCEPT ![p] = IF st[p] = "dead" THEN "absent" ELSE "ready", ![t] = "running"]
        /\ tid' = [tid EXCEPT ![p] = IF st[p] = "dead" THEN "none" ELSE @]
        /\ kthread' = IF st[p] = "dead" THEN kthread \ {p} ELSE kthread
    BY <1>1, <1>2, <1>3 DEF context_switch, Fields
  <2>3. /\ prev_mm[c] = None /\ st[t] = "ready" /\ curr' = [curr EXCEPT ![c] = t]
        /\ prev_mm' = [prev_mm EXCEPT ![c] =
                       IF mm[t] # None /\ mm[p] = None THEN active_mm[p] ELSE None]
        /\ UNCHANGED <<maker, released, mm, owner, observed, oom, vfork_done, waiting, done>>
    BY <1>2 DEF context_switch, Runnable
  <2> QED BY <2>1, <2>2, <2>3
<1>5. /\ mm_count' = [n \in MMs |-> IF n = active_mm[p] /\ mm[t] = None /\ mm[p] # None
                                      THEN mm_count[n] + 1 ELSE mm_count[n]]
      /\ UNCHANGED <<mm_users, mmst, work>>
  <2>1. CASE ~(mm[t] = None /\ mm[p] # None)
    <3>1. SetCounts(Counts)
      BY <1>1, <1>2, <1>3, <2>1 DEF context_switch, LazyCounts
    <3> QED BY <1>1, <2>1, <3>1, NothingSet DEF Fields
  <2>2. CASE mm[t] = None /\ mm[p] # None
    <3>1. PICK m \in MMs : m = active_mm[p]
      BY <1>1, <1>2, <1>3 DEF Fields
    <3>2. SetCounts(mmgrab(Counts, m))
      BY <1>1, <1>2, <1>3, <2>2, <3>1 DEF context_switch, LazyCounts
    <3> QED BY <1>1, <2>2, <3>1, <3>2, GrabSet
  <2> QED BY <2>1, <2>2
<1>6. /\ borrowed[t] = (IF mm[t] = None \/ t \notin kthread THEN None ELSE active_mm[t])
      /\ borrowed'[t] = (IF mm[t] = None THEN active_mm[p] ELSE borrowed[t])
      /\ borrowed[p] = (IF mm[p] = None \/ p \in kthread THEN active_mm[p] ELSE None)
      /\ borrowed'[p] = (IF mm[p] = None THEN None ELSE borrowed[p])
  BY <1>1, <1>2, <1>3, <1>4, <1>5 DEF borrowed, Inv, Fields, Stations, Spaces
<1>7. \A n \in MMs : borrowing'[n] = borrowing[n] + Is(borrowed'[t], n) - Is(borrowed[t], n)
                                         + Is(borrowed'[p], n) - Is(borrowed[p], n)
  <2>1. PICK T : T = {t, p}
    OBVIOUS
  <2>2. Agree(Tasks, T, borrowed, borrowed')
    BY <1>1, <1>4, <1>5, <2>1 DEF Agree, borrowed, Fields
  <2>3. t # p
    BY <1>1, <1>2, <1>3
  <2> QED BY <1>1, <1>2, <1>3, <2>1, <2>2, <2>3, BorrowerPasses
<1>8. \A d \in MMs : switching'[d] = switching[d] + Is(prev_mm'[c], d) - Is(prev_mm[c], d)
  <2>1. Agree(CPUs, {c}, prev_mm, prev_mm')
    BY <1>1, <1>4, <1>5 DEF Agree, Fields
  <2> QED BY <2>1, SwitchMoves
<1>9. using' = using
  BY <1>4, <1>5 DEF using
<1>10. Fields'
  BY <1>1, <1>2, <1>3, <1>4, <1>5 DEF Fields
<1>11. OnCpu'
  BY <1>1, <1>2, <1>3, <1>4, <1>5 DEF Inv, Fields, OnCpu, Stations, Spaces
<1>12. Stations'
  BY <1>1, <1>2, <1>3, <1>4, <1>5 DEF Inv, Fields, Stations, OnCpu, Spaces
<1>13. Spaces'
  BY <1>1, <1>2, <1>3, <1>4, <1>5, MmAssumption DEF Inv, Fields, Spaces, Stations, OnCpu
<1>14. Counted'
  <2> SUFFICES ASSUME NEW n \in MMs
               PROVE  mm_users'[n] = Users(n)' /\ mm_count'[n] = References(n)'
    BY DEF Counted
  <2>1. ReferencesBalance(n)
    BY InBalance
  <2>2. mm_users'[n] = Users(n)'
    BY <1>1, <1>2, <1>3, <1>4, <1>5, <1>6, <1>7, <1>8, <1>9, InBalance, MmAssumption
       DEF UsersBalance, Users, One, Is, Fields
  <2>3. /\ borrowing'[n] = borrowing[n] + Is(borrowed'[t], n) - Is(borrowed[t], n)
                                         + Is(borrowed'[p], n) - Is(borrowed[p], n)
        /\ switching'[n] = switching[n] + Is(prev_mm'[c], n)
        /\ prev_mm'[c] = IF mm[t] # None /\ mm[p] = None THEN active_mm[p] ELSE None
        /\ mm_count'[n] = IF n = active_mm[p] /\ mm[t] = None /\ mm[p] # None
                          THEN mm_count[n] + 1 ELSE mm_count[n]
        /\ mm_users' = mm_users /\ work' = work /\ oom' = oom
    BY <1>1, <1>4, <1>5, <1>7, <1>8, <2>1, MmAssumption DEF Fields, Is, ReferencesBalance
  <2>4. CASE n # active_mm[p]
    BY <2>2, <2>4, <1>3, <1>6, <2>3, <2>1, MmAssumption DEF ReferencesBalance, References, One, Is
  <2>5. CASE n = active_mm[p] /\ mm[t] = None /\ mm[p] = None
    BY <2>2, <2>5, <1>3, <1>6, <2>3, <2>1, MmAssumption DEF ReferencesBalance, References, One, Is
  <2>6. CASE n = active_mm[p] /\ mm[t] = None /\ mm[p] # None
    BY <2>2, <2>6, <1>3, <1>6, <2>3, <2>1, MmAssumption DEF ReferencesBalance, References, One, Is
  <2>7. CASE n = active_mm[p] /\ mm[t] # None /\ mm[p] = None
    <3>1. borrowed[p] = n /\ borrowed'[p] = None /\ borrowed'[t] = borrowed[t]
      BY <1>6, <2>7
    <3>2. borrowing'[n] = borrowing[n] - 1
      BY <1>7, <2>1, <3>1, MmAssumption DEF ReferencesBalance, Is
    <3>3. prev_mm[c] = None /\ prev_mm'[c] = n
      BY <1>1, <1>4, <2>7 DEF Fields
    <3>4. switching'[n] = switching[n] + 1
      BY <1>8, <2>1, <3>3, MmAssumption DEF ReferencesBalance, Is
    <3>5. mm_count'[n] = mm_count[n] /\ mm_users' = mm_users /\ work' = work /\ oom' = oom
      BY <1>4, <1>5, <2>7
    <3> QED BY <2>1, <2>2, <3>2, <3>4, <3>5 DEF ReferencesBalance, References, One
  <2>8. CASE n = active_mm[p] /\ mm[t] # None /\ mm[p] # None
    BY <2>2, <2>8, <1>3, <1>6, <2>3, <2>1, MmAssumption DEF ReferencesBalance, References, One, Is
  <2> QED BY <2>2, <2>4, <2>5, <2>6, <2>7, <2>8
<1>15. Stages'
  <2>1. ASSUME NEW n \in MMs
        PROVE  /\ mmst'[n] = "used" <=> mm_users'[n] > 0 \/ work'[n] = "mmput"
               /\ mmst'[n] = "free" <=> mm_count'[n] = 0 /\ work'[n] = "none"
               /\ work'[n] = "mmput" => mm_users'[n] = 0
               /\ work'[n] = "mmdrop" => mm_count'[n] = 0
    <3>1. /\ mmst[n] = "used" <=> mm_users[n] > 0 \/ work[n] = "mmput"
          /\ mmst[n] = "free" <=> mm_count[n] = 0 /\ work[n] = "none"
          /\ work[n] = "mmput" => mm_users[n] = 0
          /\ work[n] = "mmdrop" => mm_count[n] = 0
      BY DEF Inv, Stages
    <3>2. mm_users[n] \in Nat /\ mm_count[n] \in Nat /\ (mm_users[n] > 0 => mm_count[n] > 0)
      BY Alive
    <3>3. mmst[n] \in {"free", "used", "exited"} /\ work[n] \in {"none", "mmput", "mmdrop"}
      BY <1>1 DEF Fields
    <3>4. mm[p] # None => n # active_mm[p] \/ mm_users[n] > 0
      BY <1>2, <1>3, Alive, MmAssumption
    <3> QED BY <1>5, <3>1, <3>2, <3>3, <3>4
  <2> QED BY <2>1 DEF Stages
<1>16. Owners'
  BY <1>1, <1>2, <1>3, <1>4, <1>5, Alive, MmAssumption
     DEF Inv, Fields, Owners, Stations, OnCpu, Spaces
<1>17. Vforks'
  BY <1>1, <1>2, <1>3, <1>4, <1>5, MmAssumption DEF Inv, Fields, Vforks, Stations, OnCpu, Spaces
<1>18. JoinersTold
  BY <1>1, <1>2, <1>3, <1>4, <1>5, Alive DEF JoinersTold
<1> QED BY <1>10, <1>11, <1>12, <1>13, <1>14, <1>15, <1>16, <1>17, <1>18 DEF Inv

-----------------------------------------------------------------------------
(* The first state.                                                        *)

\* At first every CPU but one runs its idle task, and each of those has borrowed init_mm.
LEMMA FirstBorrowers ==
  ASSUME NEW c0 \in CPUs
  PROVE  Cardinality(Idles \ {Idle[c0]}) = Cardinality(CPUs) - 1 /\ Cardinality(CPUs) \in Nat
<1> DEFINE f == [c \in CPUs |-> Idle[c]]
<1>1. IsFiniteSet(CPUs) /\ Cardinality(CPUs) \in Nat
  BY CpuAssumption, FS_CardinalityType
<1>2. f \in Bijection(CPUs, Idles)
  BY CpuAssumption DEF Bijection, Injection, Surjection, IsInjective, Idles
<1>3. IsFiniteSet(Idles) /\ Cardinality(Idles) = Cardinality(CPUs)
  BY <1>1, <1>2, FS_Bijection DEF ExistsBijection
<1>4. Idle[c0] \in Idles
  BY DEF Idles
<1> QED BY <1>1, <1>3, <1>4, FS_RemoveElement

LEMMA InitFirst == Init => Inv
<1> SUFFICES ASSUME Init PROVE Inv
  OBVIOUS
<1>1. PICK c0 \in CPUs : c0 = CHOOSE c \in CPUs : TRUE
  BY CpuAssumption
<1>2. FirstMm \in MMs \ {init_mm} /\ init_mm \in MMs /\ None \notin MMs \cup Tasks
  BY MmAssumption DEF FirstMm
<1>3. /\ First \in Tasks /\ First \notin Idles /\ IsFiniteSet(Tasks)
      /\ \A c \in CPUs : Idle[c] \in Idles /\ Idle[c] \in Tasks
  BY TaskAssumption DEF Tasks, Idles
<1>4. /\ st = [t \in Tasks |-> CASE t = First \/ (t \in Idles /\ t # Idle[c0]) -> "running"
                                 [] t = Idle[c0] -> "ready" [] OTHER -> "absent"]
      /\ active_mm = [t \in Tasks |-> CASE t = First -> FirstMm
                                        [] t \in Idles /\ t # Idle[c0] -> init_mm [] OTHER -> None]
      /\ curr = [c \in CPUs |-> IF c = c0 THEN First ELSE Idle[c]]
  BY <1>1 DEF Init
<1>5. /\ maker = [t \in Tasks |-> None] /\ released = {} /\ kthread = Idles
      /\ mm = [t \in Tasks |-> IF t = First THEN FirstMm ELSE None]
      /\ prev_mm = [c \in CPUs |-> None]
      /\ mm_users = [m \in MMs |-> IF m \in {FirstMm, init_mm} THEN 1 ELSE 0]
      /\ mm_count = [m \in MMs |-> CASE m = FirstMm -> 1
                                         [] m = init_mm -> Cardinality(CPUs) [] OTHER -> 0]
      /\ mmst = [m \in MMs |-> IF m \in {FirstMm, init_mm} THEN "used" ELSE "free"]
      /\ work = [m \in MMs |-> "none"]
      /\ owner = [m \in MMs |-> IF m = FirstMm THEN First ELSE None]
      /\ observed = {} /\ oom = {}
      /\ vfork_done = [t \in Tasks |-> None] /\ waiting = [t \in Tasks |-> None]
      /\ done = {} /\ tid = [t \in Tasks |-> "none"]
  BY DEF Init
<1>6. Cardinality(Idles \ {Idle[c0]}) = Cardinality(CPUs) - 1 /\ Cardinality(CPUs) \in Nat
  BY FirstBorrowers
<1>7. Fields
  <2>1. st \in [Tasks -> {"absent", "new", "ready", "running", "dead"}]
    BY <1>4
  <2>2. active_mm \in [Tasks -> MMs \cup {None}] /\ curr \in [CPUs -> Tasks]
    BY <1>2, <1>3, <1>4
  <2>3. mm_count \in [MMs -> Int]
    BY <1>5, <1>6
  <2> QED BY <1>2, <1>3, <1>5, <2>1, <2>2, <2>3 DEF Fields, Tasks
<1>8. OnCpu
  BY <1>3, <1>4, CpuAssumption DEF OnCpu, Idles
<1>9. Stations
  BY <1>5 DEF Stations
<1>10. Spaces
  <2>1. \A t \in Tasks : mm[t] # None =>
        t = First /\ mm[t] = FirstMm /\ active_mm[t] = FirstMm /\ st[t] = "running"
    BY <1>2, <1>3, <1>4, <1>5
  <2>2. \A t \in Tasks : active_mm[t] # None => st[t] = "running"
    BY <1>2, <1>3, <1>4
  <2>3. \A c \in CPUs : active_mm[curr[c]] # None
    BY <1>2, <1>3, <1>4, CpuAssumption
  <2> QED BY <1>2, <1>5, <2>1, <2>2, <2>3 DEF Spaces
<1>11. \A m \in MMs : using[m] = IF m = FirstMm THEN 1 ELSE 0
  <2>1. \A m \in MMs : {t \in Tasks : mm[t] = m} = IF m = FirstMm THEN {First} ELSE {}
    BY <1>2, <1>3, <1>5
  <2> QED BY <2>1, FS_Singleton, FS_EmptySet DEF using, Num
<1>12. \A m \in MMs : borrowing[m] = IF m = init_mm THEN Cardinality(CPUs) - 1 ELSE 0
  <2>1. \A t \in Tasks : borrowed[t] = IF t \in Idles \ {Idle[c0]} THEN init_mm ELSE None
    BY <1>2, <1>3, <1>4, <1>5 DEF borrowed
  <2>2. Idles \subseteq Tasks
    BY DEF Tasks
  <2>3. \A m \in MMs :
        {t \in Tasks : borrowed[t] = m} = IF m = init_mm THEN Idles \ {Idle[c0]} ELSE {}
    BY <1>2, <2>1, <2>2
  <2> QED BY <1>6, <2>3, FS_EmptySet DEF borrowing, Num
<1>13. \A m \in MMs : switching[m] = 0
  <2>1. \A m \in MMs : {c \in CPUs : prev_mm[c] = m} = {}
    BY <1>2, <1>5
  <2> QED BY <2>1, FS_EmptySet DEF switching, Num
<1>14. Counted
  BY <1>2, <1>5, <1>6, <1>11, <1>12, <1>13 DEF Counted, Users, References, One
<1>15. Stages
  <2>1. Cardinality(CPUs) # 0
    BY CpuAssumption, FS_EmptySet
  <2> QED BY <1>2, <1>5, <1>6, <2>1 DEF Stages
<1>16. Owners
  BY <1>2, <1>3, <1>5 DEF Owners
<1>17. Vforks
  BY <1>5 DEF Vforks
<1> QED BY <1>7, <1>8, <1>9, <1>10, <1>14, <1>15, <1>16, <1>17 DEF Inv

-----------------------------------------------------------------------------
(* The theorems.                                                           *)

LEMMA StepKeeps ==
  ASSUME Inv, Step
  PROVE  Inv' /\ JoinersTold
<1>1. CASE \E m \in MMs : \/ __mmput(m) \/ mmdrop_async(m) \/ mmdrop_async_fn(m)
                          \/ observer_mmput(m) \/ mark_oom_victim(m)
  BY <1>1, MmputKeeps, MmdropAsyncKeeps, MmdropAsyncFnKeeps, ObserverMmputKeeps,
     MarkOomVictimKeeps
<1>2. CASE \E c \in CPUs : finish_task_switch(c)
  BY <1>2, FinishTaskSwitchKeeps
<1>3. CASE \E c \in CPUs, t \in Tasks : \/ context_switch(c, t) \/ exit_mm_release(t, c)
                                        \/ exit_mm(t, c) \/ exec_mmap(t, c)
                                        \/ kthread_unuse_mm(t, c)
  BY <1>3, ContextSwitchKeeps, ExitMmReleaseKeeps, ExitMmKeeps, ExecMmapKeeps,
     ExecMmapOfKthreadKeeps,
     KthreadUnuseMmKeeps
<1>4. CASE \E c \in CPUs, t \in Tasks, m \in MMs : kthread_use_mm(t, c, m)
  BY <1>4, KthreadUseMmKeeps
<1>5. CASE \E c \in CPUs, t \in Tasks, u \in Slots :
             \/ copy_mm_shared(t, c, u) \/ bad_fork_cleanup_mm(t, c, u) \/ kernel_clone(t, c, u)
  BY <1>5, CopyMmSharedKeeps, BadForkCleanupMmKeeps, KernelCloneKeeps
<1>6. CASE \E c \in CPUs, t \in Tasks, u \in Slots, m \in MMs : dup_mm(t, c, u, m)
  BY <1>6, DupMmKeeps
<1>7. CASE \E t \in Tasks : get_task_mm(t) \/ wait_for_vfork_done(t)
  BY <1>7, GetTaskMmKeeps, WaitForVforkDoneKeeps
<1> QED BY <1>1, <1>2, <1>3, <1>4, <1>5, <1>6, <1>7 DEF Step

LEMMA NextKeeps == Inv /\ [Next]_vars => Inv' /\ (JoinersTold \/ UNCHANGED vars)
<1> SUFFICES ASSUME Inv, [Next]_vars PROVE Inv' /\ (JoinersTold \/ UNCHANGED vars)
  OBVIOUS
<1>1. CASE Next
  BY <1>1, StepKeeps DEF Next
<1>2. CASE UNCHANGED vars
  BY <1>2
     DEF vars, taskVars, mmVars, vforkVars, Inv, Fields, OnCpu, Stations, Spaces, Counted, Stages,
         Owners,
              Vforks, Users, References, One, using, borrowed, borrowing, switching
<1> QED BY <1>1, <1>2

\* The inductive invariant holds in every state of every behaviour.
THEOREM MmInvariant == Spec => []Inv
<1>1. Init => Inv
  BY InitFirst
<1>2. Inv /\ [Next]_vars => Inv'
  BY NextKeeps
<1> QED BY <1>1, <1>2, PTL DEF Spec

\* All fields have their type, and the counters never leave the range that the number of holders
\* allows.
THEOREM MmTypeCorrect == Spec => []TypeOK
<1>1. Inv => TypeOK
  <2> SUFFICES ASSUME Inv PROVE TypeOK
    OBVIOUS
  <2>1. Fields
    BY DEF Inv
  <2>2. Cardinality(Tasks) \in Nat /\ Cardinality(CPUs) \in Nat
    BY TaskAssumption, CpuAssumption, FS_CardinalityType
  <2>3. ASSUME NEW m \in MMs
        PROVE  /\ mm_users[m] \in 0..(Cardinality(Tasks) + 1)
               /\ mm_count[m] \in 0..(Cardinality(Tasks) + Cardinality(CPUs) + 2)
    <3>1. /\ mm_users[m] = Users(m) /\ mm_count[m] = References(m)
          /\ init_mm \notin observed
      BY DEF Inv, Counted, Spaces
    <3>2. /\ using[m] \in Nat /\ borrowing[m] \in Nat /\ switching[m] \in Nat
          /\ using[m] <= Cardinality(Tasks) /\ borrowing[m] <= Cardinality(Tasks)
          /\ switching[m] <= Cardinality(CPUs)
      BY <2>1, Holders
    <3> QED BY <2>2, <3>1, <3>2 DEF Users, References, One
  <2> QED BY <2>1, <2>3 DEF TypeOK, Fields
<1> QED BY <1>1, MmInvariant, PTL

\* MmStructSafe: both counts are exact, no CPU runs on freed page tables, no task uses an address
\* space that is being torn down, and owner is a task that exists.
THEOREM MmStructAlwaysSafe == Spec => []MmStructSafe
<1>1. Inv => MmStructSafe
  <2> SUFFICES ASSUME Inv PROVE MmStructSafe
    OBVIOUS
  <2>1. Fields
    BY DEF Inv
  <2>2. MmCountsExact
    <3> SUFFICES ASSUME NEW m \in MMs \ {init_mm}
        PROVE /\ mm_users[m] = Cardinality({t \in Tasks : mm[t] = m})
                               + (IF m \in observed THEN 1 ELSE 0)
              /\ mm_count[m] = (IF mm_users[m] > 0 \/ work[m] = "mmput" THEN 1 ELSE 0)
                               + Cardinality(Borrowers(m))
                               + Cardinality({c \in CPUs : prev_mm[c] = m})
                               + (IF m \in oom THEN 1 ELSE 0)
      BY DEF MmCountsExact
    <3>1. using[m] = Cardinality({t \in Tasks : mm[t] = m})
      BY DEF using, Num
    <3>2. switching[m] = Cardinality({c \in CPUs : prev_mm[c] = m})
      BY DEF switching, Num
    <3>3. borrowing[m] = Cardinality(Borrowers(m))
      <4>1. {t \in Tasks : borrowed[t] = m} = Borrowers(m)
        BY MmAssumption DEF borrowed, Borrowers
      <4> QED BY <4>1 DEF borrowing, Num
    <3>4. /\ mm_users[m] = Users(m) /\ mm_count[m] = References(m)
      BY DEF Inv, Counted
    <3>5. using[m] \in Nat
      BY <2>1, Holders
    <3> QED BY <3>1, <3>2, <3>3, <3>4, <3>5 DEF Users, References, One
  <2>3. NoUseAfterFree
    <3>1. ASSUME NEW c \in CPUs
          PROVE  /\ active_mm[curr[c]] # None /\ mmst[active_mm[curr[c]]] # "free"
                 /\ prev_mm[c] # None => mmst[prev_mm[c]] # "free"
      <4>1. PICK t \in Tasks : t = curr[c]
        BY <2>1 DEF Fields
      <4>2. active_mm[t] # None /\ (mm[t] # None => active_mm[t] = mm[t])
        BY <4>1 DEF Inv, Spaces
      <4>3. mmst[active_mm[t]] # "free"
        BY <4>2, Alive DEF borrowed
      <4>4. prev_mm[c] # None => mmst[prev_mm[c]] # "free"
        BY Alive
      <4> QED BY <4>1, <4>2, <4>3, <4>4
    <3>2. \A t \in Tasks : mm[t] # None => mmst[mm[t]] = "used" /\ work[mm[t]] = "none"
      BY Alive
    <3>3. \A m \in MMs : mmst[m] = "free" <=> mm_count[m] = 0 /\ work[m] = "none"
      BY DEF Inv, Stages
    <3> QED BY <3>1, <3>2, <3>3 DEF NoUseAfterFree
  <2>4. OwnerExists
    BY <2>1, MmAssumption DEF Inv, Owners, Spaces, Fields, OwnerExists
  <2> QED BY <2>2, <2>3, <2>4 DEF MmStructSafe
<1> QED BY <1>1, MmInvariant, PTL

\* ReleaseTellsAll: no vfork() completion is lost or written to a parent that has returned, and a
\* joining thread is left untold only when nobody else has the address space.
THEOREM ReleaseAlwaysTellsAll == Spec => ReleaseTellsAll
<1>1. Inv' => VforkCompletion'
  BY DEF Inv, Vforks, VforkCompletion, Fields
<1>2. Inv /\ [Next]_vars => [VforkCompletion' /\ JoinersTold]_vars
  BY <1>1, NextKeeps
<1> QED BY <1>2, MmInvariant, PTL DEF Spec, ReleaseTellsAll
=============================================================================
