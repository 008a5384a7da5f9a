------------------------- MODULE CopyProcessProofs -------------------------
(***************************************************************************)
(* The safety of CopyProcess for any number of tasks, signals and forks at *)
(* a time: every reference count is exact on every path through            *)
(* copy_process() and its error exits, and nothing is freed under its      *)
(* users.                                                                  *)
(***************************************************************************)
EXTENDS CopyProcess, FiniteSetTheorems, TLAPS

States == {"free", "new", "live", "zombie", "reaped"}

\* The steps at which there is a child.
ChildSteps == {"creds", "limits", "mempolicy", "perf", "audit", "security", "semundo", "files", "fs",
               "sighand", "signal", "mm", "namespaces", "io", "thread", "pid", "pidfd", "cgroup", "publish"}
Ats == ChildSteps \cup {"none", "sigpending", "dup_task_struct"}
Things == {"task", "stack", "creds", "pidfd"} \cup OwnSteps
FlagSets == {{}} \cup UNION {s.flags : s \in Scenarios}
ForkStates == [at : Ats, child : Tasks \cup {None}, flags : FlagSets,
               delayed : SUBSET Signals, base : SUBSET Signals]

Fields ==
    /\ scenario \in Scenarios
    /\ st \in [Tasks -> States] /\ fork \in [Tasks -> ForkStates] /\ own \in [Tasks -> SUBSET Things]
    /\ ptr \in [Tasks -> [Kinds -> Tasks \cup {None}]] /\ holds \in [Tasks -> SUBSET Kinds]
    /\ count \in [Kinds -> [Tasks -> Int]] /\ group_threads \in [Tasks -> Int]
    /\ killed \subseteq Tasks /\ pending \subseteq Tasks /\ filter \subseteq Tasks
    /\ work \subseteq Tasks /\ refs \subseteq Tasks /\ pid_adding \in BOOLEAN
    /\ sent \subseteq Signals /\ seen \in [Tasks -> SUBSET Signals]
    /\ real_parent \in [Tasks -> Tasks \cup {None}] /\ leader \in [Tasks -> Tasks \cup {None}]
    /\ rcu_users \in [Tasks -> Int]

One(P) == IF P THEN 1 ELSE 0
Has(S, e) == IF e \in S THEN 1 ELSE 0

\* Of references h through pointers p, those to object o of kind k.
RefTo(h, p, k, o) == IF k \in h /\ p[k] = o THEN 1 ELSE 0

\* What a task has in each stage of its life.
Stage(t) ==
    /\ st[t] = "free" => /\ own[t] = {} /\ holds[t] = {} /\ rcu_users[t] = 0
                         /\ t \notin refs /\ t \notin work
                         /\ \A k \in Kinds : ptr[t][k] = None
    /\ st[t] # "free" => \A k \in Kinds : ptr[t][k] \in Tasks
    /\ st[t] = "new" => rcu_users[t] = 2 /\ t \notin refs
    /\ st[t] = "live" => /\ {"task", "stack", "creds", "pid"} \subseteq own[t]
                         /\ holds[t] = Kinds /\ rcu_users[t] = 2
    /\ st[t] = "zombie" => /\ {"task", "creds", "pid"} \subseteq own[t]
                           /\ own[t] \subseteq {"task", "stack", "creds", "security", "pid"}
                           /\ holds[t] = {"sighand", "signal"}
                           /\ rcu_users[t] = 1 + One("stack" \in own[t])
    /\ st[t] = "reaped" => /\ {"task", "creds"} \subseteq own[t]
                           /\ own[t] \subseteq {"task", "stack", "creds", "security"}
                           /\ holds[t] = {"signal"} /\ rcu_users[t] = One("stack" \in own[t])
    /\ t \notin Published => leader[t] = None /\ real_parent[t] = None /\ t \notin filter
Stages == st[Root] = "live" /\ \A t \in Tasks : Stage(t)

\* What the ladder gives back from the label of step s down.
Owed(s) == UNION {Gives[i] : i \in Place(Labels, FailLabel(s)) .. Len(Labels)}

\* What the child of t has before step s, with flags, and where its pointers point.
ChildHas(t, c, s, flags) ==
    /\ own[c] = (Owed(s) \ Kinds) \ (IF "PIDFD" \in flags THEN {} ELSE {"pidfd"})
    /\ holds[c] = (Owed(s) \cap Kinds) \ (IF "THREAD" \in flags THEN {"signal"} ELSE {})
    /\ \A k \in Kinds : ptr[c][k] # ptr[t][k] => k \in holds[c] /\ ShareFlag[k] \notin flags
    /\ c \in work => t \in work
    /\ "THREAD" \notin flags /\ "signal" \in holds[c]
         => \A u \in Tasks \ {c} : ptr[u]["signal"] # ptr[c]["signal"]

Forking(t) ==
    /\ fork[t].at = "none" => fork[t] = NoFork
    /\ fork[t].at # "none" =>
         /\ st[t] = "live"
         /\ "THREAD" \in fork[t].flags => {"SIGHAND", "VM"} \subseteq fork[t].flags
         /\ "THREAD" \in fork[t].flags \/ fork[t].base \cup fork[t].delayed = sent
    /\ fork[t].at \notin ChildSteps => fork[t].child = None
    /\ fork[t].at \in ChildSteps =>
         /\ fork[t].child \in Tasks /\ st[fork[t].child] = "new"
         /\ ChildHas(t, fork[t].child, fork[t].at, fork[t].flags)
Forks ==
    /\ \A t \in Tasks : Forking(t)
    /\ \A t, u \in Tasks : fork[t].child \in Tasks /\ fork[t].child = fork[u].child => t = u
    /\ \A c \in Tasks : st[c] = "new" => \E t \in Tasks : fork[t].child = c

Holders(k, o) == {t \in Tasks : k \in holds[t] /\ ptr[t][k] = o}
Procs == {t \in Tasks : "creds" \in own[t] /\ st[t] # "reaped"}

Counted == \A k \in Kinds, o \in Tasks : count[k][o] = Cardinality(Holders(k, o))
Numbers ==
    /\ nproc = Cardinality(Procs) /\ nr_threads = Cardinality(Published)
    /\ \A s \in Tasks : Threads(s) # {} => group_threads[s] = Cardinality(Threads(s))

\* Leaders lead themselves and outlive their threads; parents are alive.
Family ==
    /\ \A u \in Published : /\ leader[u] \in Published /\ Signal(leader[u]) = Signal(u)
                            /\ leader[leader[u]] = leader[u]
    /\ \A u \in Tasks : real_parent[u] # None => st[real_parent[u]] = "live"

\* A group that has been killed has a task_struct left, which is not one that is being created.
KilledInUse == \A s \in killed : \E t \in Tasks : st[t] \in {"live", "zombie", "reaped"} /\ Signal(t) = s

Inv ==
    /\ Fields /\ Stages /\ Forks /\ Counted /\ Numbers /\ Family /\ KilledInUse
    /\ SignalsReachAll /\ ThreadsAgree

-----------------------------------------------------------------------------
(* The steps and the ladder of labels.                                     *)

\* One label further down.
LEMMA FromEnd ==
  ASSUME NEW i \in 1 .. 19
  PROVE  UNION {Gives[j] : j \in i .. 20} = Gives[i] \cup UNION {Gives[j] : j \in i + 1 .. 20}
<1>1. i .. 20 = {i} \cup (i + 1 .. 20)
  OBVIOUS
<1> QED BY <1>1

\* The steps that take something for the child alone, and the next ones.
LEMMA NextSteps ==
  /\ After("creds") = "limits" /\ After("mempolicy") = "perf" /\ After("perf") = "audit"
  /\ After("audit") = "security" /\ After("security") = "semundo" /\ After("semundo") = "files"
  /\ After("namespaces") = "io" /\ After("io") = "thread" /\ After("thread") = "pid"
  /\ After("pid") = "pidfd" /\ After("cgroup") = "publish"
<1>1. After("creds") = "limits"
  <2>1. Place(Steps, "creds") = 4
    BY DEF Place, Steps
  <2> QED BY <2>1 DEF After, Steps
<1>2. After("mempolicy") = "perf"
  <2>1. Place(Steps, "mempolicy") = 6
    BY DEF Place, Steps
  <2> QED BY <2>1 DEF After, Steps
<1>3. After("perf") = "audit"
  <2>1. Place(Steps, "perf") = 7
    BY DEF Place, Steps
  <2> QED BY <2>1 DEF After, Steps
<1>4. After("audit") = "security"
  <2>1. Place(Steps, "audit") = 8
    BY DEF Place, Steps
  <2> QED BY <2>1 DEF After, Steps
<1>5. After("security") = "semundo"
  <2>1. Place(Steps, "security") = 9
    BY DEF Place, Steps
  <2> QED BY <2>1 DEF After, Steps
<1>6. After("semundo") = "files"
  <2>1. Place(Steps, "semundo") = 10
    BY DEF Place, Steps
  <2> QED BY <2>1 DEF After, Steps
<1>7. After("namespaces") = "io"
  <2>1. Place(Steps, "namespaces") = 16
    BY DEF Place, Steps
  <2> QED BY <2>1 DEF After, Steps
<1>8. After("io") = "thread"
  <2>1. Place(Steps, "io") = 17
    BY DEF Place, Steps
  <2> QED BY <2>1 DEF After, Steps
<1>9. After("thread") = "pid"
  <2>1. Place(Steps, "thread") = 18
    BY DEF Place, Steps
  <2> QED BY <2>1 DEF After, Steps
<1>10. After("pid") = "pidfd"
  <2>1. Place(Steps, "pid") = 19
    BY DEF Place, Steps
  <2> QED BY <2>1 DEF After, Steps
<1>11. After("cgroup") = "publish"
  <2>1. Place(Steps, "cgroup") = 21
    BY DEF Place, Steps
  <2> QED BY <2>1 DEF After, Steps
<1> QED BY <1>1, <1>2, <1>3, <1>4, <1>5, <1>6, <1>7, <1>8, <1>9, <1>10, <1>11

\* The label of step s is the one above which everything is taken at s or later.
LEMMA LabelPlaces ==
  /\ Place(Labels, FailLabel("creds")) = 19
  /\ Place(Labels, FailLabel("limits")) = 18
  /\ Place(Labels, FailLabel("mempolicy")) = 17
  /\ Place(Labels, FailLabel("perf")) = 16
  /\ Place(Labels, FailLabel("audit")) = 15
  /\ Place(Labels, FailLabel("security")) = 14
  /\ Place(Labels, FailLabel("semundo")) = 13
  /\ Place(Labels, FailLabel("files")) = 12
  /\ Place(Labels, FailLabel("fs")) = 11
  /\ Place(Labels, FailLabel("sighand")) = 10
  /\ Place(Labels, FailLabel("signal")) = 9
  /\ Place(Labels, FailLabel("mm")) = 8
  /\ Place(Labels, FailLabel("namespaces")) = 7
  /\ Place(Labels, FailLabel("io")) = 6
  /\ Place(Labels, FailLabel("thread")) = 5
  /\ Place(Labels, FailLabel("pid")) = 4
  /\ Place(Labels, FailLabel("pidfd")) = 3
  /\ Place(Labels, FailLabel("cgroup")) = 2
  /\ Place(Labels, FailLabel("publish")) = 1
<1>1. Place(Labels, FailLabel("creds")) = 19
  <2>1. FailLabel("creds") = "bad_fork_free"
    BY DEF FailLabel
  <2>2. Place(Labels, "bad_fork_free") = 19
    BY DEF Place, Labels
  <2> QED BY <2>1, <2>2
<1>2. Place(Labels, FailLabel("limits")) = 18
  <2>1. FailLabel("limits") = "bad_fork_cleanup_count"
    BY DEF FailLabel
  <2>2. Place(Labels, "bad_fork_cleanup_count") = 18
    BY DEF Place, Labels
  <2> QED BY <2>1, <2>2
<1>3. Place(Labels, FailLabel("mempolicy")) = 17
  <2>1. FailLabel("mempolicy") = "bad_fork_cleanup_threadgroup_lock"
    BY DEF FailLabel
  <2>2. Place(Labels, "bad_fork_cleanup_threadgroup_lock") = 17
    BY DEF Place, Labels
  <2> QED BY <2>1, <2>2
<1>4. Place(Labels, FailLabel("perf")) = 16
  <2>1. FailLabel("perf") = "bad_fork_cleanup_policy"
    BY DEF FailLabel
  <2>2. Place(Labels, "bad_fork_cleanup_policy") = 16
    BY DEF Place, Labels
  <2> QED BY <2>1, <2>2
<1>5. Place(Labels, FailLabel("audit")) = 15
  <2>1. FailLabel("audit") = "bad_fork_cleanup_perf"
    BY DEF FailLabel
  <2>2. Place(Labels, "bad_fork_cleanup_perf") = 15
    BY DEF Place, Labels
  <2> QED BY <2>1, <2>2
<1>6. Place(Labels, FailLabel("security")) = 14
  <2>1. FailLabel("security") = "bad_fork_cleanup_audit"
    BY DEF FailLabel
  <2>2. Place(Labels, "bad_fork_cleanup_audit") = 14
    BY DEF Place, Labels
  <2> QED BY <2>1, <2>2
<1>7. Place(Labels, FailLabel("semundo")) = 13
  <2>1. FailLabel("semundo") = "bad_fork_cleanup_security"
    BY DEF FailLabel
  <2>2. Place(Labels, "bad_fork_cleanup_security") = 13
    BY DEF Place, Labels
  <2> QED BY <2>1, <2>2
<1>8. Place(Labels, FailLabel("files")) = 12
  <2>1. FailLabel("files") = "bad_fork_cleanup_semundo"
    BY DEF FailLabel
  <2>2. Place(Labels, "bad_fork_cleanup_semundo") = 12
    BY DEF Place, Labels
  <2> QED BY <2>1, <2>2
<1>9. Place(Labels, FailLabel("fs")) = 11
  <2>1. FailLabel("fs") = "bad_fork_cleanup_files"
    BY DEF FailLabel
  <2>2. Place(Labels, "bad_fork_cleanup_files") = 11
    BY DEF Place, Labels
  <2> QED BY <2>1, <2>2
<1>10. Place(Labels, FailLabel("sighand")) = 10
  <2>1. FailLabel("sighand") = "bad_fork_cleanup_fs"
    BY DEF FailLabel
  <2>2. Place(Labels, "bad_fork_cleanup_fs") = 10
    BY DEF Place, Labels
  <2> QED BY <2>1, <2>2
<1>11. Place(Labels, FailLabel("signal")) = 9
  <2>1. FailLabel("signal") = "bad_fork_cleanup_sighand"
    BY DEF FailLabel
  <2>2. Place(Labels, "bad_fork_cleanup_sighand") = 9
    BY DEF Place, Labels
  <2> QED BY <2>1, <2>2
<1>12. Place(Labels, FailLabel("mm")) = 8
  <2>1. FailLabel("mm") = "bad_fork_cleanup_signal"
    BY DEF FailLabel
  <2>2. Place(Labels, "bad_fork_cleanup_signal") = 8
    BY DEF Place, Labels
  <2> QED BY <2>1, <2>2
<1>13. Place(Labels, FailLabel("namespaces")) = 7
  <2>1. FailLabel("namespaces") = "bad_fork_cleanup_mm"
    BY DEF FailLabel
  <2>2. Place(Labels, "bad_fork_cleanup_mm") = 7
    BY DEF Place, Labels
  <2> QED BY <2>1, <2>2
<1>14. Place(Labels, FailLabel("io")) = 6
  <2>1. FailLabel("io") = "bad_fork_cleanup_namespaces"
    BY DEF FailLabel
  <2>2. Place(Labels, "bad_fork_cleanup_namespaces") = 6
    BY DEF Place, Labels
  <2> QED BY <2>1, <2>2
<1>15. Place(Labels, FailLabel("thread")) = 5
  <2>1. FailLabel("thread") = "bad_fork_cleanup_io"
    BY DEF FailLabel
  <2>2. Place(Labels, "bad_fork_cleanup_io") = 5
    BY DEF Place, Labels
  <2> QED BY <2>1, <2>2
<1>16. Place(Labels, FailLabel("pid")) = 4
  <2>1. FailLabel("pid") = "bad_fork_cleanup_thread"
    BY DEF FailLabel
  <2>2. Place(Labels, "bad_fork_cleanup_thread") = 4
    BY DEF Place, Labels
  <2> QED BY <2>1, <2>2
<1>17. Place(Labels, FailLabel("pidfd")) = 3
  <2>1. FailLabel("pidfd") = "bad_fork_free_pid"
    BY DEF FailLabel
  <2>2. Place(Labels, "bad_fork_free_pid") = 3
    BY DEF Place, Labels
  <2> QED BY <2>1, <2>2
<1>18. Place(Labels, FailLabel("cgroup")) = 2
  <2>1. FailLabel("cgroup") = "bad_fork_put_pidfd"
    BY DEF FailLabel
  <2>2. Place(Labels, "bad_fork_put_pidfd") = 2
    BY DEF Place, Labels
  <2> QED BY <2>1, <2>2
<1>19. Place(Labels, FailLabel("publish")) = 1
  <2>1. FailLabel("publish") = "bad_fork_cancel_cgroup"
    BY DEF FailLabel
  <2>2. Place(Labels, "bad_fork_cancel_cgroup") = 1
    BY DEF Place, Labels
  <2> QED BY <2>1, <2>2
<1> QED BY <1>1, <1>2, <1>3, <1>4, <1>5, <1>6, <1>7, <1>8, <1>9, <1>10, <1>11, <1>12, <1>13,
           <1>14, <1>15, <1>16, <1>17, <1>18, <1>19

\* The ladder mirrors the steps: a step adds what its successor's label gives back first.  The
\* limits are only looked at, and the credentials are given back under the label of that step.
LEMMA Ladder ==
  /\ Owed("creds") = {"stack", "task"}
  /\ Owed("limits") = Owed("creds") \cup {"creds"}
  /\ Owed("mempolicy") = Owed("limits")
  /\ Owed("perf") = Owed("mempolicy") \cup {"mempolicy"}
  /\ Owed("audit") = Owed("perf") \cup {"perf"}
  /\ Owed("security") = Owed("audit") \cup {"audit"}
  /\ Owed("semundo") = Owed("security") \cup {"security"}
  /\ Owed("files") = Owed("semundo") \cup {"semundo"}
  /\ Owed("fs") = Owed("files") \cup {"files"}
  /\ Owed("sighand") = Owed("fs") \cup {"fs"}
  /\ Owed("signal") = Owed("sighand") \cup {"sighand"}
  /\ Owed("mm") = Owed("signal") \cup {"signal"}
  /\ Owed("namespaces") = Owed("mm") \cup {"mm"}
  /\ Owed("io") = Owed("namespaces") \cup {"namespaces"}
  /\ Owed("thread") = Owed("io") \cup {"io"}
  /\ Owed("pid") = Owed("thread") \cup {"thread"}
  /\ Owed("pidfd") = Owed("pid") \cup {"pid"}
  /\ Owed("cgroup") = Owed("pidfd") \cup {"pidfd"}
  /\ Owed("publish") = Owed("cgroup") \cup {"cgroup"}
<1>0. Len(Labels) = 20
  BY DEF Labels
<1>1. Owed("creds") = {"stack", "task"}
  <2>1. Owed("creds") = Gives[19] \cup UNION {Gives[j] : j \in 20 .. 20}
    BY <1>0, LabelPlaces, FromEnd DEF Owed
  <2>2. Gives[19] = {"stack", "task"} /\ Gives[20] = {}
    BY DEF Gives
  <2>3. 20 .. 20 = {20}
    OBVIOUS
  <2> QED BY <2>1, <2>2, <2>3
<1>2. Owed("limits") = Owed("creds") \cup {"creds"}
  <2>1. Owed("limits") = Gives[18] \cup UNION {Gives[j] : j \in 19 .. 20}
    BY <1>0, LabelPlaces, FromEnd DEF Owed
  <2>2. Gives[18] = {"creds"}
    BY DEF Gives
  <2>3. Owed("creds") = UNION {Gives[j] : j \in 19 .. 20}
    BY <1>0, LabelPlaces DEF Owed
  <2> QED BY <2>1, <2>2, <2>3
<1>3. Owed("mempolicy") = Owed("limits")
  <2>1. Owed("mempolicy") = Gives[17] \cup UNION {Gives[j] : j \in 18 .. 20}
    BY <1>0, LabelPlaces, FromEnd DEF Owed
  <2>2. Gives[17] = {}
    BY DEF Gives
  <2>3. Owed("limits") = UNION {Gives[j] : j \in 18 .. 20}
    BY <1>0, LabelPlaces DEF Owed
  <2> QED BY <2>1, <2>2, <2>3
<1>4. Owed("perf") = Owed("mempolicy") \cup {"mempolicy"}
  <2>1. Owed("perf") = Gives[16] \cup UNION {Gives[j] : j \in 17 .. 20}
    BY <1>0, LabelPlaces, FromEnd DEF Owed
  <2>2. Gives[16] = {"mempolicy"}
    BY DEF Gives
  <2>3. Owed("mempolicy") = UNION {Gives[j] : j \in 17 .. 20}
    BY <1>0, LabelPlaces DEF Owed
  <2> QED BY <2>1, <2>2, <2>3
<1>5. Owed("audit") = Owed("perf") \cup {"perf"}
  <2>1. Owed("audit") = Gives[15] \cup UNION {Gives[j] : j \in 16 .. 20}
    BY <1>0, LabelPlaces, FromEnd DEF Owed
  <2>2. Gives[15] = {"perf"}
    BY DEF Gives
  <2>3. Owed("perf") = UNION {Gives[j] : j \in 16 .. 20}
    BY <1>0, LabelPlaces DEF Owed
  <2> QED BY <2>1, <2>2, <2>3
<1>6. Owed("security") = Owed("audit") \cup {"audit"}
  <2>1. Owed("security") = Gives[14] \cup UNION {Gives[j] : j \in 15 .. 20}
    BY <1>0, LabelPlaces, FromEnd DEF Owed
  <2>2. Gives[14] = {"audit"}
    BY DEF Gives
  <2>3. Owed("audit") = UNION {Gives[j] : j \in 15 .. 20}
    BY <1>0, LabelPlaces DEF Owed
  <2> QED BY <2>1, <2>2, <2>3
<1>7. Owed("semundo") = Owed("security") \cup {"security"}
  <2>1. Owed("semundo") = Gives[13] \cup UNION {Gives[j] : j \in 14 .. 20}
    BY <1>0, LabelPlaces, FromEnd DEF Owed
  <2>2. Gives[13] = {"security"}
    BY DEF Gives
  <2>3. Owed("security") = UNION {Gives[j] : j \in 14 .. 20}
    BY <1>0, LabelPlaces DEF Owed
  <2> QED BY <2>1, <2>2, <2>3
<1>8. Owed("files") = Owed("semundo") \cup {"semundo"}
  <2>1. Owed("files") = Gives[12] \cup UNION {Gives[j] : j \in 13 .. 20}
    BY <1>0, LabelPlaces, FromEnd DEF Owed
  <2>2. Gives[12] = {"semundo"}
    BY DEF Gives
  <2>3. Owed("semundo") = UNION {Gives[j] : j \in 13 .. 20}
    BY <1>0, LabelPlaces DEF Owed
  <2> QED BY <2>1, <2>2, <2>3
<1>9. Owed("fs") = Owed("files") \cup {"files"}
  <2>1. Owed("fs") = Gives[11] \cup UNION {Gives[j] : j \in 12 .. 20}
    BY <1>0, LabelPlaces, FromEnd DEF Owed
  <2>2. Gives[11] = {"files"}
    BY DEF Gives
  <2>3. Owed("files") = UNION {Gives[j] : j \in 12 .. 20}
    BY <1>0, LabelPlaces DEF Owed
  <2> QED BY <2>1, <2>2, <2>3
<1>10. Owed("sighand") = Owed("fs") \cup {"fs"}
  <2>1. Owed("sighand") = Gives[10] \cup UNION {Gives[j] : j \in 11 .. 20}
    BY <1>0, LabelPlaces, FromEnd DEF Owed
  <2>2. Gives[10] = {"fs"}
    BY DEF Gives
  <2>3. Owed("fs") = UNION {Gives[j] : j \in 11 .. 20}
    BY <1>0, LabelPlaces DEF Owed
  <2> QED BY <2>1, <2>2, <2>3
<1>11. Owed("signal") = Owed("sighand") \cup {"sighand"}
  <2>1. Owed("signal") = Gives[9] \cup UNION {Gives[j] : j \in 10 .. 20}
    BY <1>0, LabelPlaces, FromEnd DEF Owed
  <2>2. Gives[9] = {"sighand"}
    BY DEF Gives
  <2>3. Owed("sighand") = UNION {Gives[j] : j \in 10 .. 20}
    BY <1>0, LabelPlaces DEF Owed
  <2> QED BY <2>1, <2>2, <2>3
<1>12. Owed("mm") = Owed("signal") \cup {"signal"}
  <2>1. Owed("mm") = Gives[8] \cup UNION {Gives[j] : j \in 9 .. 20}
    BY <1>0, LabelPlaces, FromEnd DEF Owed
  <2>2. Gives[8] = {"signal"}
    BY DEF Gives
  <2>3. Owed("signal") = UNION {Gives[j] : j \in 9 .. 20}
    BY <1>0, LabelPlaces DEF Owed
  <2> QED BY <2>1, <2>2, <2>3
<1>13. Owed("namespaces") = Owed("mm") \cup {"mm"}
  <2>1. Owed("namespaces") = Gives[7] \cup UNION {Gives[j] : j \in 8 .. 20}
    BY <1>0, LabelPlaces, FromEnd DEF Owed
  <2>2. Gives[7] = {"mm"}
    BY DEF Gives
  <2>3. Owed("mm") = UNION {Gives[j] : j \in 8 .. 20}
    BY <1>0, LabelPlaces DEF Owed
  <2> QED BY <2>1, <2>2, <2>3
<1>14. Owed("io") = Owed("namespaces") \cup {"namespaces"}
  <2>1. Owed("io") = Gives[6] \cup UNION {Gives[j] : j \in 7 .. 20}
    BY <1>0, LabelPlaces, FromEnd DEF Owed
  <2>2. Gives[6] = {"namespaces"}
    BY DEF Gives
  <2>3. Owed("namespaces") = UNION {Gives[j] : j \in 7 .. 20}
    BY <1>0, LabelPlaces DEF Owed
  <2> QED BY <2>1, <2>2, <2>3
<1>15. Owed("thread") = Owed("io") \cup {"io"}
  <2>1. Owed("thread") = Gives[5] \cup UNION {Gives[j] : j \in 6 .. 20}
    BY <1>0, LabelPlaces, FromEnd DEF Owed
  <2>2. Gives[5] = {"io"}
    BY DEF Gives
  <2>3. Owed("io") = UNION {Gives[j] : j \in 6 .. 20}
    BY <1>0, LabelPlaces DEF Owed
  <2> QED BY <2>1, <2>2, <2>3
<1>16. Owed("pid") = Owed("thread") \cup {"thread"}
  <2>1. Owed("pid") = Gives[4] \cup UNION {Gives[j] : j \in 5 .. 20}
    BY <1>0, LabelPlaces, FromEnd DEF Owed
  <2>2. Gives[4] = {"thread"}
    BY DEF Gives
  <2>3. Owed("thread") = UNION {Gives[j] : j \in 5 .. 20}
    BY <1>0, LabelPlaces DEF Owed
  <2> QED BY <2>1, <2>2, <2>3
<1>17. Owed("pidfd") = Owed("pid") \cup {"pid"}
  <2>1. Owed("pidfd") = Gives[3] \cup UNION {Gives[j] : j \in 4 .. 20}
    BY <1>0, LabelPlaces, FromEnd DEF Owed
  <2>2. Gives[3] = {"pid"}
    BY DEF Gives
  <2>3. Owed("pid") = UNION {Gives[j] : j \in 4 .. 20}
    BY <1>0, LabelPlaces DEF Owed
  <2> QED BY <2>1, <2>2, <2>3
<1>18. Owed("cgroup") = Owed("pidfd") \cup {"pidfd"}
  <2>1. Owed("cgroup") = Gives[2] \cup UNION {Gives[j] : j \in 3 .. 20}
    BY <1>0, LabelPlaces, FromEnd DEF Owed
  <2>2. Gives[2] = {"pidfd"}
    BY DEF Gives
  <2>3. Owed("pidfd") = UNION {Gives[j] : j \in 3 .. 20}
    BY <1>0, LabelPlaces DEF Owed
  <2> QED BY <2>1, <2>2, <2>3
<1>19. Owed("publish") = Owed("cgroup") \cup {"cgroup"}
  <2>1. Owed("publish") = Gives[1] \cup UNION {Gives[j] : j \in 2 .. 20}
    BY <1>0, LabelPlaces, FromEnd DEF Owed
  <2>2. Gives[1] = {"cgroup"}
    BY DEF Gives
  <2>3. Owed("cgroup") = UNION {Gives[j] : j \in 2 .. 20}
    BY <1>0, LabelPlaces DEF Owed
  <2> QED BY <2>1, <2>2, <2>3
<1> QED BY <1>1, <1>2, <1>3, <1>4, <1>5, <1>6, <1>7, <1>8, <1>9, <1>10, <1>11, <1>12, <1>13,
           <1>14, <1>15, <1>16, <1>17, <1>18, <1>19

-----------------------------------------------------------------------------
(* Counting.                                                               *)

\* If two sets differ at most at c, so do their sizes.
LEMMA SetMoves ==
  ASSUME NEW F, NEW G, IsFiniteSet(F), NEW c, \A u : u # c => (u \in F <=> u \in G)
  PROVE  /\ Cardinality(F) \in Nat /\ Cardinality(G) \in Nat
         /\ Cardinality(G) = Cardinality(F) + Has(G, c) - Has(F, c)
<1>1. CASE c \in F /\ c \notin G
  <2>1. G = F \ {c}
    BY <1>1
  <2> QED BY <1>1, <2>1, FS_RemoveElement, FS_CardinalityType DEF Has
<1>2. CASE c \notin F /\ c \in G
  <2>1. G = F \cup {c}
    BY <1>2
  <2> QED BY <1>2, <2>1, FS_AddElement, FS_CardinalityType DEF Has
<1>3. CASE (c \in F) <=> (c \in G)
  <2>1. G = F
    BY <1>3
  <2> QED BY <1>3, <2>1, FS_CardinalityType DEF Has
<1> QED BY <1>1, <1>2, <1>3

LEMMA FiniteParts ==
  ASSUME NEW S \in SUBSET Tasks
  PROVE  IsFiniteSet(S) /\ Cardinality(S) \in Nat /\ Cardinality(S) <= Cardinality(Tasks)
         /\ Cardinality(Tasks) \in Nat
BY RootAssumption, FS_Subset, FS_CardinalityType

\* A reference is counted.
LEMMA Referenced ==
  ASSUME Inv, NEW t \in Tasks, NEW k \in holds[t], ptr[t][k] \in Tasks
  PROVE  k \in Kinds /\ count[k][ptr[t][k]] >= 1
<1>1. k \in Kinds /\ t \in Holders(k, ptr[t][k])
  BY DEF Inv, Fields, Holders
<1>2. Holders(k, ptr[t][k]) \in SUBSET Tasks
  BY DEF Holders
<1>3. Cardinality(Holders(k, ptr[t][k])) \in Nat /\ Cardinality(Holders(k, ptr[t][k])) # 0
  BY <1>1, <1>2, FiniteParts, FS_EmptySet
<1> QED BY <1>1, <1>3 DEF Inv, Counted

\* The last reference is the only one.
LEMMA LastReference ==
  ASSUME Inv, NEW t \in Tasks, NEW u \in Tasks, NEW k \in Kinds, NEW o \in Tasks, count[k][o] = 1,
         k \in holds[t], k \in holds[u], ptr[t][k] = o, ptr[u][k] = o
  PROVE  t = u
<1>1. t \in Holders(k, o) /\ u \in Holders(k, o) /\ Cardinality(Holders(k, o)) = 1
  BY DEF Inv, Counted, Holders
<1>2. IsFiniteSet(Holders(k, o))
  BY FiniteParts DEF Holders
<1>3. PICK H : H = Holders(k, o)
  OBVIOUS
<1>4. Cardinality(H \ {t}) = 0 /\ IsFiniteSet(H \ {t})
  <2>1. IsFiniteSet(H) /\ t \in H /\ Cardinality(H) = 1
    BY <1>1, <1>2, <1>3
  <2>2. IsFiniteSet(H \ {t}) /\ Cardinality(H \ {t}) = Cardinality(H) - 1
    BY <2>1, FS_RemoveElement, Zenon
  <2> QED BY <2>1, <2>2
<1>5. H \ {t} = {}
  BY <1>4, FS_EmptySet
<1> QED BY <1>1, <1>3, <1>5

\* A task that has no reference of kind k finds an unused structure: every other task holds one at most.
LEMMA Allocates ==
  ASSUME Inv, NEW c \in Tasks, NEW k \in Kinds, k \notin holds[c]
  PROVE  NewObject(k, c) \in Tasks /\ count[k][NewObject(k, c)] = 0
<1>1. ASSUME \A o \in Tasks : count[k][o] # 0 PROVE FALSE
  <2> DEFINE H == {t \in Tasks : k \in holds[t] /\ ptr[t][k] \in Tasks}
             f == [t \in H |-> ptr[t][k]]
  <2>1. ASSUME NEW o \in Tasks PROVE \E t \in H : f[t] = o
    <3>1. Cardinality(Holders(k, o)) # 0
      BY <1>1, <2>1 DEF Inv, Counted
    <3>2. Holders(k, o) # {}
      BY <3>1, FS_EmptySet
    <3> QED BY <3>2, <2>1 DEF Holders
  <2>2. H \in SUBSET (Tasks \ {c}) /\ IsFiniteSet(H)
    BY FiniteParts
  <2>3. f \in Surjection(H, Tasks)
    BY <2>1 DEF Surjection
  <2>4. Cardinality(Tasks) <= Cardinality(H)
    BY <2>2, <2>3, FS_Surjection
  <2>5. Cardinality(H) <= Cardinality(Tasks \ {c}) /\ Cardinality(H) \in Nat
    BY <2>2, FiniteParts, FS_Subset, FS_CardinalityType
  <2>6. Cardinality(Tasks \ {c}) = Cardinality(Tasks) - 1 /\ Cardinality(Tasks) \in Nat
    BY RootAssumption, FS_RemoveElement, FS_CardinalityType
  <2> QED BY <2>4, <2>5, <2>6
<1> QED BY <1>1 DEF NewObject

\* The counts stay exact if one task gets and loses what they count up and down.
LEMMA CountsKeep ==
  ASSUME Inv, NEW c \in Tasks,
         \A u \in Tasks \ {c} : holds'[u] = holds[u] /\ ptr'[u] = ptr[u],
         \A k \in Kinds, x \in Tasks :
            count'[k][x] = count[k][x] + RefTo(holds'[c], ptr'[c], k, x)
                                       - RefTo(holds[c], ptr[c], k, x)
  PROVE  Counted'
<1> SUFFICES ASSUME NEW k \in Kinds, NEW o \in Tasks
             PROVE  count'[k][o] = Cardinality(Holders(k, o)')
  BY DEF Counted
<1>1. PICK F, G : F = Holders(k, o) /\ G = Holders(k, o)'
  OBVIOUS
<1>2. /\ IsFiniteSet(F) /\ \A u : u # c => (u \in F <=> u \in G)
      /\ c \in F <=> k \in holds[c] /\ ptr[c][k] = o
      /\ c \in G <=> k \in holds'[c] /\ ptr'[c][k] = o
  BY <1>1, FiniteParts DEF Holders
<1>3. Cardinality(G) = Cardinality(F) + Has(G, c) - Has(F, c)
  BY <1>2, SetMoves
<1>4. Has(F, c) = RefTo(holds[c], ptr[c], k, o)
      /\ Has(G, c) = RefTo(holds'[c], ptr'[c], k, o)
  BY <1>2 DEF Has, RefTo
<1> QED BY <1>1, <1>3, <1>4 DEF Inv, Counted

-----------------------------------------------------------------------------
(* The steps that give the child something.                                *)

\* The child of a fork is its own.
LEMMA Kid ==
  ASSUME Inv, NEW t \in Tasks, fork[t].at \in ChildSteps
  PROVE  /\ Child(t) \in Tasks /\ Child(t) # t /\ st[t] = "live" /\ st[Child(t)] = "new"
         /\ ChildHas(t, Child(t), fork[t].at, fork[t].flags)
         /\ \A u \in Tasks : u # t => fork[u].child # Child(t)
         /\ Child(t) \notin Published /\ Child(t) # Root
         /\ "THREAD" \in fork[t].flags => {"SIGHAND", "VM"} \subseteq fork[t].flags
<1>1. Forking(t) /\ fork[t].at # "none"
  BY DEF Inv, Forks, ChildSteps
<1>2. Child(t) \in Tasks /\ st[t] = "live" /\ st[Child(t)] = "new"
      /\ ChildHas(t, Child(t), fork[t].at, fork[t].flags)
      /\ ("THREAD" \in fork[t].flags => {"SIGHAND", "VM"} \subseteq fork[t].flags)
  BY <1>1 DEF Forking, Child
<1>3. \A u \in Tasks : u # t => fork[u].child # Child(t)
  BY <1>2 DEF Inv, Forks, Child
<1> QED BY <1>2, <1>3 DEF Inv, Stages, Published

\* Whatever a task points to as its signal_struct is in use.
LEMMA SignalUsed ==
  ASSUME Inv, NEW u \in Tasks, ptr[u]["signal"] \in Tasks
  PROVE  count["signal"][ptr[u]["signal"]] >= 1
<1>1. "signal" \in Kinds /\ st[u] \in States /\ Stage(u) /\ None \notin Tasks
  BY RootAssumption DEF Inv, Fields, Stages, Kinds
<1>2. CASE "signal" \in holds[u]
  BY <1>2, Referenced
<1>3. CASE "signal" \notin holds[u]
  <2>1. st[u] = "new"
    BY <1>1, <1>3 DEF Stage, States, Kinds
  <2>2. PICK t \in Tasks : fork[t].child = u
    BY <2>1 DEF Inv, Forks
  <2>3. fork[t].at \in ChildSteps
    BY <2>2, <1>1 DEF Inv, Forks, Forking
  <2>4. ptr[u]["signal"] = ptr[t]["signal"] /\ st[t] = "live"
    BY <2>2, <2>3, <1>1, <1>3, Kid DEF ChildHas, Child
  <2>5. "signal" \in holds[t]
    BY <2>4, <1>1 DEF Inv, Stages, Stage
  <2> QED BY <2>4, <2>5, Referenced
<1> QED BY <1>2, <1>3

\* What the steps of a fork leave alone while the child grows.
FillFrame ==
    UNCHANGED <<scenario, st, killed, pending, sent, seen, nr_threads, group_threads, real_parent,
                leader,
                pid_adding, filter, work, rcu_users, refs>>

\* A step that leaves the child c of t, with flags F, before step s and with own things o, pointers p
\* and references h.
FillStep(t, c, s, F, o, p, h) ==
    /\ c = Child(t) /\ F = fork[t].flags
    /\ fork' = [fork EXCEPT ![t].at = s] /\ own' = [own EXCEPT ![c] = o]
    /\ ptr' = [ptr EXCEPT ![c] = p] /\ holds' = [holds EXCEPT ![c] = h]
    /\ o = (Owed(s) \ Kinds) \ (IF "PIDFD" \in F THEN {} ELSE {"pidfd"})
    /\ h = (Owed(s) \cap Kinds) \ (IF "THREAD" \in F THEN {"signal"} ELSE {})
    /\ \A k \in Kinds : p[k] # ptr[t][k] => k \in h /\ ShareFlag[k] \notin F
    /\ \/ p["signal"] = ptr[c]["signal"] /\ ("signal" \in h => "signal" \in holds[c])
       \/ count["signal"][p["signal"]] = 0
    /\ count' \in [Kinds -> [Tasks -> Int]]
    /\ \A k \in Kinds, x \in Tasks :
          count'[k][x] = count[k][x] + RefTo(h, p, k, x) - RefTo(holds[c], ptr[c], k, x)
    /\ nproc' = nproc + Has(o, "creds") - Has(own[c], "creds")

LEMMA Fills ==
  ASSUME Inv, FillFrame, NEW t \in Tasks, fork[t].at \in ChildSteps, NEW s \in ChildSteps, NEW c, NEW F,
         NEW o \in SUBSET Things, NEW p \in [Kinds -> Tasks], NEW h \in SUBSET Kinds,
         FillStep(t, c, s, F, o, p, h)
  PROVE  Inv'
<1> USE DEF FillStep
<1>1. /\ c \in Tasks /\ c # t /\ st[t] = "live" /\ st[c] = "new" /\ c \notin Published /\ c # Root
      /\ ChildHas(t, c, fork[t].at, F) /\ \A u \in Tasks : u # t => fork[u].child # c
  BY Kid
<1>2. Fields /\ fork[t] \in ForkStates
  BY DEF Inv, Fields
<1>3. PICK r : r = [fork[t] EXCEPT !.at = s]
  OBVIOUS
<1>4. /\ r \in ForkStates /\ r.at = s /\ r.child = c /\ r.flags = F
      /\ r.delayed = fork[t].delayed /\ r.base = fork[t].base
  BY <1>2, <1>3 DEF ForkStates, ChildSteps, Ats, Child
<1>5. fork' = [fork EXCEPT ![t] = r]
  BY <1>2, <1>3 DEF Fields
<1>6. /\ fork'[t] = r /\ own'[c] = o /\ ptr'[c] = p /\ holds'[c] = h
      /\ \A u \in Tasks : u # t => fork'[u] = fork[u]
      /\ \A u \in Tasks : u # c => own'[u] = own[u] /\ ptr'[u] = ptr[u] /\ holds'[u] = holds[u]
  BY <1>1, <1>2, <1>5 DEF Fields
<1>7. Fields'
  <2>1. p \in [Kinds -> Tasks \cup {None}]
    OBVIOUS
  <2>2. fork' \in [Tasks -> ForkStates]
    <3>1. fork \in [Tasks -> ForkStates]
      BY <1>2 DEF Fields
    <3>2. r \in ForkStates
      BY <1>4
    <3> HIDE DEF FillStep
    <3> QED BY <3>1, <3>2, <1>5
  <2>3. own' \in [Tasks -> SUBSET Things] /\ holds' \in [Tasks -> SUBSET Kinds]
    BY <1>2 DEF Fields
  <2>4. ptr' \in [Tasks -> [Kinds -> Tasks \cup {None}]]
    BY <1>2, <2>1 DEF Fields
  <2> QED BY <1>2, <2>2, <2>3, <2>4 DEF Fields, FillFrame
<1>8. UNCHANGED st /\ Published' = Published
  BY DEF FillFrame, Published
<1>9. Stages'
  <2>1. ASSUME NEW u \in Tasks, u # c PROVE Stage(u)'
    BY <2>1, <1>6, <1>8 DEF Inv, Stages, Stage, FillFrame
  <2>2. Stage(c)'
    <3>1. rcu_users'[c] = 2 /\ c \notin refs' /\ st'[c] = "new"
      BY <1>1 DEF Inv, Stages, Stage, FillFrame
    <3>2. leader'[c] = None /\ real_parent'[c] = None /\ c \notin filter'
      BY <1>1 DEF Inv, Stages, Stage, FillFrame
    <3>3. \A k \in Kinds : ptr'[c][k] \in Tasks
      BY <1>6
    <3> QED BY <3>1, <3>2, <3>3 DEF Stage
  <2> QED BY <2>1, <2>2, <1>8 DEF Inv, Stages
<1>10. Forks'
  <2>1. ASSUME NEW u \in Tasks, u # t PROVE Forking(u)'
    <3>1. Forking(u) /\ fork'[u] = fork[u]
      BY <2>1, <1>6 DEF Inv, Forks
    <3>2. CASE fork[u].at \notin ChildSteps
      BY <3>1, <3>2, <1>8 DEF Forking, FillFrame
    <3>3. CASE fork[u].at \in ChildSteps
      <4>1. PICK d \in Tasks : d = Child(u) /\ d # c /\ st[u] = "live" /\ u # c /\ st[d] = "new"
                               /\ ChildHas(u, d, fork[u].at, fork[u].flags)
        BY <2>1, <3>3, <1>1, Kid DEF Child
      <4>2. own'[d] = own[d] /\ ptr'[d] = ptr[d] /\ holds'[d] = holds[d] /\ ptr'[u] = ptr[u]
            /\ work' = work
        BY <4>1, <1>6 DEF FillFrame
      <4>3. ASSUME "signal" \in holds[d], ptr'[c]["signal"] = ptr[d]["signal"]
            PROVE  "signal" \in Kinds /\ ptr[c]["signal"] = ptr[d]["signal"]
        <5>1. "signal" \in Kinds /\ ptr[d]["signal"] \in Tasks
          BY <4>1 DEF Kinds, Inv, Stages, Stage
        <5>2. count["signal"][ptr[d]["signal"]] >= 1
          BY <5>1, SignalUsed
        <5> QED BY <5>1, <5>2, <4>3, <1>6
      <4>4. ChildHas(u, d, fork[u].at, fork[u].flags)'
        <5>1. ASSUME "THREAD" \notin fork[u].flags, "signal" \in holds[d], NEW w \in Tasks \ {d}
              PROVE  ptr'[w]["signal"] # ptr[d]["signal"]
          <6>1. ptr[w]["signal"] # ptr[d]["signal"]
            BY <5>1, <4>1 DEF ChildHas
          <6>2. CASE w = c
            BY <6>1, <6>2, <5>1, <4>3
          <6>3. CASE w # c
            BY <6>1, <6>3, <1>6
          <6> QED BY <6>2, <6>3
        <5> QED BY <5>1, <4>1, <4>2, <3>1 DEF ChildHas
      <4> QED BY <3>1, <3>3, <4>1, <4>4, <1>8 DEF Forking, FillFrame, Child
    <3> QED BY <3>2, <3>3
  <2>2. Forking(t)'
    <3>1. ASSUME "THREAD" \notin F, "signal" \in h, NEW w \in Tasks \ {c}
          PROVE  ptr'[w]["signal"] # p["signal"]
      <4>1. ptr'[w] = ptr[w] /\ p["signal"] \in Tasks
        BY <3>1, <1>6 DEF Kinds
      <4>2. CASE p["signal"] = ptr[c]["signal"] /\ "signal" \in holds[c]
        BY <3>1, <4>1, <4>2, <1>1 DEF ChildHas
      <4>3. CASE count["signal"][p["signal"]] = 0
        BY <4>1, <4>3, SignalUsed
      <4> QED BY <3>1, <4>2, <4>3
    <3>2. ChildHas(t, c, s, F)'
      <4>1. ptr'[t] = ptr[t] /\ work' = work
        BY <1>1, <1>6 DEF FillFrame
      <4> QED BY <4>1, <3>1, <1>1, <1>6 DEF ChildHas
    <3>3. s # "none" /\ Forking(t) /\ fork[t].at # "none"
      BY DEF ChildSteps, Inv, Forks
    <3>4. /\ "THREAD" \in r.flags => {"SIGHAND", "VM"} \subseteq r.flags
          /\ "THREAD" \in r.flags \/ r.base \cup r.delayed = sent'
      BY <3>3, <1>4 DEF Forking, FillFrame
    <3>5. fork'[t] = r /\ st'[t] = "live" /\ st'[c] = "new" /\ r.at = s /\ r.child = c /\ r.flags = F
      BY <1>1, <1>4, <1>6, <1>8
    <3> QED BY <3>3, <3>4, <3>5, <3>2, <1>1 DEF Forking
  <2>3. \A u \in Tasks : fork'[u].child = fork[u].child
    BY <1>4, <1>6 DEF Child
  <2> QED BY <2>1, <2>2, <2>3, <1>8 DEF Inv, Forks
<1>11. Counted'
  <2>1. holds'[c] = h /\ ptr'[c] = p
    BY <1>6
  <2>2. \A k \in Kinds, x \in Tasks :
           count'[k][x] = count[k][x] + RefTo(holds'[c], ptr'[c], k, x) - RefTo(holds[c], ptr[c], k, x)
    <3>1. \A k \in Kinds, x \in Tasks :
             count'[k][x] = count[k][x] + RefTo(h, p, k, x) - RefTo(holds[c], ptr[c], k, x)
      OBVIOUS
    <3> HIDE DEF FillStep
    <3> QED BY <2>1, <3>1
  <2>3. \A u \in Tasks \ {c} : holds'[u] = holds[u] /\ ptr'[u] = ptr[u]
    BY <1>6
  <2>4. c \in Tasks
    BY <1>1
  <2> QED BY <2>2, <2>3, <2>4, CountsKeep
<1>12. Numbers'
  <2>1. PICK A, B : A = Procs /\ B = Procs'
    OBVIOUS
  <2>2. /\ IsFiniteSet(A) /\ \A u : u # c => (u \in A <=> u \in B)
        /\ c \in A <=> "creds" \in own[c]
        /\ c \in B <=> "creds" \in o
    BY <2>1, <1>1, <1>6, <1>8, FiniteParts DEF Procs
  <2>3. Cardinality(B) = Cardinality(A) + Has(B, c) - Has(A, c)
    BY <2>2, SetMoves
  <2>4. Has(A, c) = Has(own[c], "creds") /\ Has(B, c) = Has(o, "creds")
    BY <2>2 DEF Has
  <2>5. nproc' = Cardinality(Procs')
    BY <2>1, <2>3, <2>4 DEF Inv, Numbers
  <2>6. \A x \in Tasks : Threads(x)' = Threads(x)
    BY <1>1, <1>6, <1>8 DEF Threads, Signal
  <2> QED BY <2>5, <2>6, <1>8 DEF Inv, Numbers, FillFrame
<1>13. Family'
  <2>1. \A u \in Published : Signal(u)' = Signal(u)
    BY <1>1, <1>6 DEF Signal, Published
  <2> QED BY <2>1, <1>8 DEF Inv, Family, FillFrame
<1>14. KilledInUse'
  BY <1>1, <1>6, <1>8 DEF Inv, KilledInUse, FillFrame, Signal
<1>15. SignalsReachAll' /\ ThreadsAgree'
  <2>1. \A u \in Tasks : st[u] = "live" => ptr'[u] = ptr[u]
    BY <1>1, <1>6
  <2> QED BY <2>1, <1>8 DEF Inv, SignalsReachAll, ThreadsAgree, FillFrame, Signal
<1> QED BY <1>7, <1>9, <1>10, <1>11, <1>12, <1>13, <1>14, <1>15 DEF Inv

LEMMA Integral ==
  ASSUME Inv
  PROVE  /\ nproc \in Nat /\ nr_threads \in Nat
         /\ \A k \in Kinds, x \in Tasks : count[k][x] \in Int
BY FiniteParts DEF Inv, Fields, Numbers, Procs, Published

\* Nothing taken.
LEMMA NoneTaken ==
  ASSUME NEW n \in Int, NEW S, NEW e, NEW h, NEW p, NEW k, NEW o
  PROVE  n = n + Has(S, e) - Has(S, e) /\ n = n + RefTo(h, p, k, o) - RefTo(h, p, k, o)
BY DEF Has, RefTo

\* A step that takes something for the child alone, or nothing.
OwnStep(t, s, o) ==
    /\ fork' = [fork EXCEPT ![t].at = s] /\ own' = [own EXCEPT ![Child(t)] = o]
    /\ UNCHANGED <<ptr, holds, count>>
    /\ o = (Owed(s) \ Kinds) \ (IF "PIDFD" \in fork[t].flags THEN {} ELSE {"pidfd"})
    /\ Owed(s) \cap Kinds = Owed(fork[t].at) \cap Kinds
    /\ nproc' = nproc + Has(o, "creds") - Has(own[Child(t)], "creds")

LEMMA OwnFills ==
  ASSUME Inv, FillFrame, NEW t \in Tasks, fork[t].at \in ChildSteps, NEW s \in ChildSteps,
         NEW o \in SUBSET Things, OwnStep(t, s, o)
  PROVE  Inv'
<1>1. PICK c, F : c = Child(t) /\ F = fork[t].flags
  OBVIOUS
<1>2. c \in Tasks /\ st[c] = "new" /\ ChildHas(t, c, fork[t].at, F)
  BY <1>1, Kid
<1>3. PICK p, h : p = ptr[c] /\ h = holds[c]
  OBVIOUS
<1>4. /\ p \in [Kinds -> Tasks] /\ h \in SUBSET Kinds /\ ptr' = [ptr EXCEPT ![c] = p]
      /\ holds' = [holds EXCEPT ![c] = h]
  <2>1. ptr \in [Tasks -> [Kinds -> Tasks \cup {None}]] /\ holds \in [Tasks -> SUBSET Kinds]
    BY DEF Inv, Fields
  <2>2. \A k \in Kinds : ptr[c][k] \in Tasks
    BY <1>2 DEF Inv, Stages, Stage
  <2> QED BY <2>1, <2>2, <1>2, <1>3 DEF OwnStep
<1>5. /\ h = (Owed(s) \cap Kinds) \ (IF "THREAD" \in F THEN {"signal"} ELSE {})
      /\ \A k \in Kinds : p[k] # ptr[t][k] => k \in h /\ ShareFlag[k] \notin F
      /\ p["signal"] = ptr[c]["signal"] /\ ("signal" \in h => "signal" \in holds[c])
  BY <1>2, <1>3 DEF ChildHas, OwnStep
<1>6. /\ count' \in [Kinds -> [Tasks -> Int]]
      /\ \A k \in Kinds, x \in Tasks :
            count'[k][x] = count[k][x] + RefTo(h, p, k, x) - RefTo(holds[c], ptr[c], k, x)
  <2>1. ASSUME NEW k \in Kinds, NEW x \in Tasks
        PROVE  count'[k][x] = count[k][x] + RefTo(h, p, k, x) - RefTo(holds[c], ptr[c], k, x)
    <3>1. count[k][x] = count[k][x] + RefTo(h, p, k, x) - RefTo(h, p, k, x)
      BY Integral, NoneTaken
    <3> QED BY <3>1, <1>3 DEF OwnStep
  <2>2. count' \in [Kinds -> [Tasks -> Int]]
    BY DEF Inv, Fields, OwnStep
  <2> QED BY <2>1, <2>2
<1>7. /\ own' = [own EXCEPT ![c] = o]
      /\ o = (Owed(s) \ Kinds) \ (IF "PIDFD" \in F THEN {} ELSE {"pidfd"})
      /\ nproc' = nproc + Has(o, "creds") - Has(own[c], "creds")
  BY <1>1 DEF OwnStep
<1>8. FillStep(t, c, s, F, o, p, h)
  BY <1>1, <1>4, <1>5, <1>6, <1>7 DEF FillStep, OwnStep
<1> QED BY <1>4, <1>8, Fills

LEMMA TakeLadder ==
  ASSUME NEW s \in OwnSteps \cup {"creds"}
  PROVE  /\ s \in ChildSteps /\ After(s) \in ChildSteps /\ Owed(After(s)) = Owed(s) \cup {s}
         /\ s \in Things /\ s \notin Kinds /\ s # "pidfd" /\ s # "none"
BY NextSteps, Ladder DEF OwnSteps, ChildSteps, Things, Kinds

\* The credentials are what the ladder of every later step gives back.
LEMMA CredsOwed ==
  ASSUME NEW s \in ChildSteps
  PROVE  "creds" \in Owed(s) <=> s # "creds"
BY Ladder DEF ChildSteps

LEMMA copy_credsKeeps ==
  ASSUME Inv, NEW t \in Tasks, copy_creds(t), UNCHANGED scenario
  PROVE  Inv'
<1>1. fork[t].at = "creds" /\ "creds" \in ChildSteps /\ After("creds") = "limits" /\ "limits" \in ChildSteps
  BY NextSteps DEF copy_creds, Take, At, ChildSteps
<1>2. PICK o : o = own[Child(t)] \cup {"creds"}
  OBVIOUS
<1>3. own' = [own EXCEPT ![Child(t)] = o] /\ fork' = [fork EXCEPT ![t].at = "limits"]
  BY <1>1, <1>2 DEF copy_creds, Take, Goto
<1>4. /\ own[Child(t)] = (Owed("creds") \ Kinds) \ (IF "PIDFD" \in fork[t].flags THEN {} ELSE {"pidfd"})
      /\ Child(t) \in Tasks
  BY <1>1, Kid DEF ChildHas
<1>5. /\ o = (Owed("limits") \ Kinds) \ (IF "PIDFD" \in fork[t].flags THEN {} ELSE {"pidfd"})
      /\ Owed("limits") \cap Kinds = Owed("creds") \cap Kinds
  BY <1>2, <1>4, Ladder DEF Kinds
<1>6. o \in SUBSET Things
  BY <1>2, <1>4 DEF Inv, Fields, Things
<1>7. nproc' = nproc + Has(o, "creds") - Has(own[Child(t)], "creds")
  <2>1. "creds" \in o /\ "creds" \notin own[Child(t)] /\ nproc \in Int
    BY <1>2, <1>4, <1>1, CredsOwed, FiniteParts DEF Inv, Numbers, Procs
  <2> QED BY <2>1 DEF copy_creds, Has
<1>8. OwnStep(t, "limits", o) /\ FillFrame
  BY <1>1, <1>3, <1>5, <1>7
     DEF OwnStep, copy_creds, FillFrame, sigVars, treeVars, secVars, lifeVars
<1> QED BY <1>1, <1>6, <1>8, OwnFills

LEMMA takeKeeps ==
  ASSUME Inv, NEW t \in Tasks, take(t), UNCHANGED scenario
  PROVE  Inv'
<1>1. PICK s \in OwnSteps :
        Take(t, s) /\ UNCHANGED <<st, ptr, holds, count, nproc, sigVars, treeVars, secVars,
                                  lifeVars>>
  BY DEF take
<1>2. fork[t].at = s /\ s \in ChildSteps /\ After(s) \in ChildSteps /\ Owed(After(s)) = Owed(s) \cup {s}
      /\ s \in Things /\ s \notin Kinds /\ s # "pidfd" /\ s # "creds"
  BY <1>1, TakeLadder DEF Take, At, OwnSteps
<1>3. PICK o : o = own[Child(t)] \cup {s}
  OBVIOUS
<1>4. own' = [own EXCEPT ![Child(t)] = o] /\ fork' = [fork EXCEPT ![t].at = After(s)]
  BY <1>1, <1>3 DEF Take, Goto
<1>5. /\ own[Child(t)] = (Owed(s) \ Kinds) \ (IF "PIDFD" \in fork[t].flags THEN {} ELSE {"pidfd"})
      /\ Child(t) \in Tasks
  BY <1>2, Kid DEF ChildHas
<1>6. /\ o = (Owed(After(s)) \ Kinds) \ (IF "PIDFD" \in fork[t].flags THEN {} ELSE {"pidfd"})
      /\ Owed(After(s)) \cap Kinds = Owed(s) \cap Kinds
  BY <1>2, <1>3, <1>5
<1>7. o \in SUBSET Things
  BY <1>2, <1>3, <1>5 DEF Inv, Fields
<1>8. nproc' = nproc + Has(o, "creds") - Has(own[Child(t)], "creds")
  <2>1. "creds" \in o <=> "creds" \in own[Child(t)]
    BY <1>2, <1>3
  <2>2. Has(o, "creds") = Has(own[Child(t)], "creds")
    BY <2>1 DEF Has
  <2>3. nproc = nproc + Has(o, "creds") - Has(o, "creds")
    BY Integral, NoneTaken
  <2> QED BY <2>2, <2>3, <1>1
<1>9. OwnStep(t, After(s), o) /\ FillFrame
  BY <1>1, <1>2, <1>4, <1>6, <1>8 DEF OwnStep, FillFrame, sigVars, treeVars, secVars, lifeVars
<1> QED BY <1>2, <1>7, <1>9, OwnFills

LEMMA limitsKeeps ==
  ASSUME Inv, NEW t \in Tasks, limits(t), UNCHANGED scenario
  PROVE  Inv'
<1>1. fork[t].at = "limits" /\ "limits" \in ChildSteps /\ "mempolicy" \in ChildSteps
  BY DEF limits, At, ChildSteps
<1>2. PICK o : o = own[Child(t)]
  OBVIOUS
<1>3. /\ o = (Owed("limits") \ Kinds) \ (IF "PIDFD" \in fork[t].flags THEN {} ELSE {"pidfd"})
      /\ Child(t) \in Tasks
  BY <1>1, <1>2, Kid DEF ChildHas
<1>4. /\ own' = [own EXCEPT ![Child(t)] = o] /\ fork' = [fork EXCEPT ![t].at = "mempolicy"]
      /\ o \in SUBSET Things /\ nproc' = nproc
  BY <1>2, <1>3 DEF limits, Goto, copyVars, Inv, Fields
<1>5. nproc' = nproc + Has(o, "creds") - Has(own[Child(t)], "creds")
  BY <1>2, <1>4, Integral, NoneTaken
<1>6. /\ Owed("mempolicy") \cap Kinds = Owed(fork[t].at) \cap Kinds
      /\ o = (Owed("mempolicy") \ Kinds) \ (IF "PIDFD" \in fork[t].flags THEN {} ELSE {"pidfd"})
  BY <1>1, <1>3, Ladder
<1>7. OwnStep(t, "mempolicy", o) /\ FillFrame
  BY <1>4, <1>5, <1>6
     DEF OwnStep, limits, FillFrame, copyVars, sigVars, treeVars, secVars, lifeVars
<1> QED BY <1>1, <1>4, <1>7, OwnFills

LEMMA pidfdKeeps ==
  ASSUME Inv, NEW t \in Tasks, pidfd(t), UNCHANGED scenario
  PROVE  Inv'
<1>1. fork[t].at = "pidfd" /\ "pidfd" \in ChildSteps /\ "cgroup" \in ChildSteps
  BY DEF pidfd, At, ChildSteps
<1>2. PICK o : o = IF "PIDFD" \in fork[t].flags THEN own[Child(t)] \cup {"pidfd"} ELSE own[Child(t)]
  OBVIOUS
<1>3. own' = [own EXCEPT ![Child(t)] = o] /\ fork' = [fork EXCEPT ![t].at = "cgroup"]
  BY <1>2 DEF pidfd, Goto, Flag
<1>4. /\ own[Child(t)] = (Owed("pidfd") \ Kinds) \ (IF "PIDFD" \in fork[t].flags THEN {} ELSE {"pidfd"})
      /\ Child(t) \in Tasks
  BY <1>1, Kid DEF ChildHas
<1>5. Owed("cgroup") = Owed("pidfd") \cup {"pidfd"} /\ "pidfd" \notin Kinds
  BY Ladder DEF Kinds
<1>6. /\ o = (Owed("cgroup") \ Kinds) \ (IF "PIDFD" \in fork[t].flags THEN {} ELSE {"pidfd"})
      /\ Owed("cgroup") \cap Kinds = Owed("pidfd") \cap Kinds
  BY <1>2, <1>4, <1>5
<1>7. o \in SUBSET Things
  BY <1>2, <1>4 DEF Inv, Fields, Things
<1>8. nproc' = nproc + Has(o, "creds") - Has(own[Child(t)], "creds")
  <2>1. Has(o, "creds") = Has(own[Child(t)], "creds") /\ nproc' = nproc
    BY <1>2 DEF pidfd, Has
  <2>2. nproc = nproc + Has(o, "creds") - Has(o, "creds")
    BY Integral, NoneTaken
  <2> QED BY <2>1, <2>2
<1>9. OwnStep(t, "cgroup", o) /\ FillFrame
  BY <1>1, <1>3, <1>6, <1>8 DEF OwnStep, pidfd, FillFrame, sigVars, treeVars, secVars, lifeVars
<1> QED BY <1>1, <1>7, <1>9, OwnFills

\* One more reference, to x of kind k.
Gain(c, k, x, n, p, h) ==
    /\ k \notin holds[c] /\ n = count[k][x] + 1 /\ count' = [count EXCEPT ![k][x] = n]
    /\ p = [ptr[c] EXCEPT ![k] = x] /\ h = holds[c] \cup {k}

LEMMA Gains ==
  ASSUME Inv, NEW c \in Tasks, NEW k \in Kinds, NEW x \in Tasks, NEW n, NEW p, NEW h, Gain(c, k, x, n, p, h)
  PROVE  /\ count' \in [Kinds -> [Tasks -> Int]]
         /\ \A j \in Kinds, y \in Tasks :
               count'[j][y] = count[j][y] + RefTo(h, p, j, y) - RefTo(holds[c], ptr[c], j, y)
<1> USE DEF Gain
<1>1. count \in [Kinds -> [Tasks -> Int]] /\ n \in Int /\ ptr[c] \in [Kinds -> Tasks \cup {None}]
  BY DEF Inv, Fields
<1>2. PICK row : row = [count[k] EXCEPT ![x] = n]
  OBVIOUS
<1>3. row \in [Tasks -> Int] /\ row[x] = n /\ \A y \in Tasks : y # x => row[y] = count[k][y]
  BY <1>1, <1>2
<1>4. count' = [count EXCEPT ![k] = row]
  BY <1>1, <1>2
<1>5. ASSUME NEW j \in Kinds, NEW y \in Tasks
      PROVE  count'[j][y] = count[j][y] + RefTo(h, p, j, y) - RefTo(holds[c], ptr[c], j, y)
  <2>1. CASE j = k
    <3>1. p[k] = x /\ k \in h
      BY <1>1
    <3>2. RefTo(h, p, k, y) = (IF x = y THEN 1 ELSE 0) /\ RefTo(holds[c], ptr[c], k, y) = 0
      BY <3>1 DEF RefTo
    <3>3. count'[k][y] = IF x = y THEN n ELSE count[k][y]
      BY <1>1, <1>3, <1>4
    <3> QED BY <2>1, <3>2, <3>3, Integral
  <2>2. CASE j # k
    <3>1. p[j] = ptr[c][j] /\ (j \in h <=> j \in holds[c])
      BY <2>2, <1>1
    <3>2. RefTo(h, p, j, y) = RefTo(holds[c], ptr[c], j, y)
      BY <3>1 DEF RefTo
    <3>3. count'[j][y] = count[j][y]
      BY <1>1, <1>4, <2>2
    <3>4. count[j][y] = count[j][y] + RefTo(h, p, j, y) - RefTo(h, p, j, y)
      BY Integral, NoneTaken
    <3> QED BY <3>2, <3>3, <3>4
  <2> QED BY <2>1, <2>2
<1>6. count' \in [Kinds -> [Tasks -> Int]]
  <2> HIDE DEF Gain
  <2> QED BY <1>1, <1>3, <1>4
<1> QED BY <1>5, <1>6

\* A structure that is shared or copied; a thread keeps its pointer to the signal_struct.
Gets(t, k) ==
    \/ ShareFlag[k] \in fork[t].flags /\ k # "signal" /\ Share(t, k)
    \/ ShareFlag[k] \notin fork[t].flags /\ Copy(t, k)
    \/ k = "signal" /\ "THREAD" \in fork[t].flags /\ UNCHANGED <<count, ptr, holds>>

LEMMA KindFills ==
  ASSUME Inv, FillFrame, UNCHANGED <<own, nproc>>, NEW t \in Tasks, NEW k \in Kinds,
                                     k \in ChildSteps,
         fork[t].at = k, NEW s \in ChildSteps, fork' = [fork EXCEPT ![t].at = s],
         Owed(s) = Owed(k) \cup {k}, k \notin Owed(k), Gets(t, k)
  PROVE  Inv'
<1>1. PICK c, F, o : c = Child(t) /\ F = fork[t].flags /\ o = own[c]
  OBVIOUS
<1>2. c \in Tasks /\ c # t /\ st[c] = "new" /\ ChildHas(t, c, k, F) /\ st[t] = "live"
  BY <1>1, Kid
<1>3. /\ ptr \in [Tasks -> [Kinds -> Tasks \cup {None}]] /\ holds \in [Tasks -> SUBSET Kinds]
      /\ count \in [Kinds -> [Tasks -> Int]] /\ o \in SUBSET Things /\ own' = [own EXCEPT ![c] = o]
      /\ ptr[c] \in [Kinds -> Tasks \cup {None}] /\ holds[c] \in SUBSET Kinds
  BY <1>1, <1>2 DEF Inv, Fields
<1>4. (\A j \in Kinds : ptr[c][j] \in Tasks /\ ptr[t][j] \in Tasks) /\ ptr[c] \in [Kinds -> Tasks]
  <2>1. \A j \in Kinds : ptr[c][j] \in Tasks /\ ptr[t][j] \in Tasks
    BY <1>2 DEF Inv, Stages, Stage
  <2> QED BY <2>1, <1>3
<1>5. k \notin holds[c] /\ ptr[c][k] = ptr[t][k]
  BY <1>2 DEF ChildHas
<1>6. /\ o = (Owed(s) \ Kinds) \ (IF "PIDFD" \in F THEN {} ELSE {"pidfd"})
      /\ nproc' = nproc + Has(o, "creds") - Has(own[c], "creds")
  <2>1. Owed(s) \ Kinds = Owed(k) \ Kinds
    OBVIOUS
  <2>2. nproc = nproc + Has(o, "creds") - Has(o, "creds")
    BY Integral, NoneTaken
  <2> QED BY <2>1, <2>2, <1>1, <1>2 DEF ChildHas
<1>7. ASSUME NEW x \in Tasks, NEW n, n = count[k][x] + 1, count' = [count EXCEPT ![k][x] = n],
             ptr' = [ptr EXCEPT ![c][k] = x], holds' = [holds EXCEPT ![c] = holds[c] \cup {k}],
             x = ptr[t][k] \/ ShareFlag[k] \notin F, k = "signal" => count[k][x] = 0 /\ "THREAD" \notin F
      PROVE  Inv'
  <2>1. PICK p, h : p = [ptr[c] EXCEPT ![k] = x] /\ h = holds[c] \cup {k}
    OBVIOUS
  <2>2. /\ p \in [Kinds -> Tasks] /\ p[k] = x /\ (\A j \in Kinds : j # k => p[j] = ptr[c][j])
        /\ h \in SUBSET Kinds /\ ptr' = [ptr EXCEPT ![c] = p] /\ holds' = [holds EXCEPT ![c] = h]
    BY <2>1, <1>7, <1>3, <1>4
  <2>3. /\ count' \in [Kinds -> [Tasks -> Int]]
        /\ \A j \in Kinds, y \in Tasks :
              count'[j][y] = count[j][y] + RefTo(h, p, j, y) - RefTo(holds[c], ptr[c], j, y)
    <3>1. Gain(c, k, x, n, p, h)
      BY <2>1, <1>7, <1>5 DEF Gain
    <3> QED BY <3>1, <1>2, Gains
  <2>4. h = (Owed(s) \cap Kinds) \ (IF "THREAD" \in F THEN {"signal"} ELSE {})
    BY <2>1, <1>2, <1>7 DEF ChildHas
  <2>5. \A j \in Kinds : p[j] # ptr[t][j] => j \in h /\ ShareFlag[j] \notin F
    BY <2>1, <2>2, <1>2, <1>7 DEF ChildHas
  <2>6. \/ p["signal"] = ptr[c]["signal"] /\ ("signal" \in h => "signal" \in holds[c])
        \/ count["signal"][p["signal"]] = 0
    BY <2>1, <2>2, <1>7 DEF Kinds
  <2>7. FillStep(t, c, s, F, o, p, h)
    BY <1>1, <1>3, <1>6, <2>2, <2>3, <2>4, <2>5, <2>6 DEF FillStep
  <2> QED BY <2>2, <2>7, <1>3, Fills
<1>8. CASE ShareFlag[k] \in F /\ k # "signal" /\ Share(t, k)
  <2>1. PICK x, n : x = ptr[t][k] /\ n = count[k][x] + 1
    OBVIOUS
  <2>2. /\ count' = [count EXCEPT ![k][x] = n] /\ ptr' = [ptr EXCEPT ![c][k] = x]
        /\ holds' = [holds EXCEPT ![c] = holds[c] \cup {k}] /\ x \in Tasks
    BY <1>1, <1>3, <1>4, <1>8, <2>1 DEF Share
  <2> QED BY <1>7, <1>8, <2>1, <2>2
<1>9. CASE ShareFlag[k] \notin F /\ Copy(t, k)
  <2>1. PICK x, n : x = NewObject(k, c) /\ n = 1
    OBVIOUS
  <2>2. x \in Tasks /\ count[k][x] = 0
    BY <2>1, <1>2, <1>5, Allocates
  <2>3. /\ count' = [count EXCEPT ![k][x] = n] /\ ptr' = [ptr EXCEPT ![c][k] = x]
        /\ holds' = [holds EXCEPT ![c] = holds[c] \cup {k}] /\ n = count[k][x] + 1
    BY <1>1, <1>3, <1>9, <2>1, <2>2 DEF Copy
  <2>4. k = "signal" => "THREAD" \notin F
    BY <1>9 DEF ShareFlag
  <2> QED BY <1>7, <1>9, <2>2, <2>3, <2>4
<1>10. CASE k = "signal" /\ "THREAD" \in F /\ UNCHANGED <<count, ptr, holds>>
  <2>1. PICK p, h : p = ptr[c] /\ h = holds[c]
    OBVIOUS
  <2>2. p \in [Kinds -> Tasks] /\ h \in SUBSET Kinds /\ count' \in [Kinds -> [Tasks -> Int]]
        /\ ptr' = [ptr EXCEPT ![c] = p] /\ holds' = [holds EXCEPT ![c] = h]
    BY <2>1, <1>3, <1>4, <1>10
  <2>3. ASSUME NEW j \in Kinds, NEW y \in Tasks
        PROVE  count'[j][y] = count[j][y] + RefTo(h, p, j, y) - RefTo(holds[c], ptr[c], j, y)
    <3>1. count[j][y] = count[j][y] + RefTo(h, p, j, y) - RefTo(h, p, j, y)
      BY Integral, NoneTaken
    <3> QED BY <3>1, <2>1, <1>10
  <2>4. h = (Owed(s) \cap Kinds) \ (IF "THREAD" \in F THEN {"signal"} ELSE {})
    BY <2>1, <1>2, <1>10 DEF ChildHas
  <2>5. \A j \in Kinds : p[j] # ptr[t][j] => j \in h /\ ShareFlag[j] \notin F
    BY <2>1, <1>2 DEF ChildHas
  <2>6. p["signal"] = ptr[c]["signal"] /\ ("signal" \in h => "signal" \in holds[c])
    BY <2>1
  <2>7. FillStep(t, c, s, F, o, p, h)
    BY <1>1, <1>3, <1>6, <2>2, <2>3, <2>4, <2>5, <2>6 DEF FillStep
  <2> QED BY <2>2, <2>7, <1>3, Fills
<1> QED BY <1>1, <1>8, <1>9, <1>10 DEF Gets

LEMMA KindLadder ==
  /\ Owed("fs") = Owed("files") \cup {"files"} /\ "files" \notin Owed("files")
  /\ Owed("sighand") = Owed("fs") \cup {"fs"} /\ "fs" \notin Owed("fs")
  /\ Owed("signal") = Owed("sighand") \cup {"sighand"} /\ "sighand" \notin Owed("sighand")
  /\ Owed("mm") = Owed("signal") \cup {"signal"} /\ "signal" \notin Owed("signal")
  /\ Owed("namespaces") = Owed("mm") \cup {"mm"} /\ "mm" \notin Owed("mm")
BY Ladder

LEMMA copy_filesKeeps ==
  ASSUME Inv, NEW t \in Tasks, copy_files(t), UNCHANGED scenario
  PROVE  Inv'
<1>1. /\ "files" \in Kinds /\ "files" \in ChildSteps /\ "fs" \in ChildSteps /\ fork[t].at = "files"
      /\ fork' = [fork EXCEPT ![t].at = "fs"]
  BY DEF Kinds, ChildSteps, copy_files, At, Goto
<1>2. Gets(t, "files")
  BY DEF Gets, copy_files, Flag, ShareFlag
<1>3. FillFrame /\ UNCHANGED <<own, nproc>>
  BY DEF copy_files, FillFrame, sigVars, treeVars, secVars, lifeVars
<1> QED BY <1>1, <1>2, <1>3, KindLadder, KindFills

LEMMA copy_fsKeeps ==
  ASSUME Inv, NEW t \in Tasks, copy_fs(t), UNCHANGED scenario
  PROVE  Inv'
<1>1. /\ "fs" \in Kinds /\ "fs" \in ChildSteps /\ "sighand" \in ChildSteps /\ fork[t].at = "fs"
      /\ fork' = [fork EXCEPT ![t].at = "sighand"]
  BY DEF Kinds, ChildSteps, copy_fs, At, Goto
<1>2. Gets(t, "fs")
  BY DEF Gets, copy_fs, Flag, ShareFlag
<1>3. FillFrame /\ UNCHANGED <<own, nproc>>
  BY DEF copy_fs, FillFrame, sigVars, treeVars, secVars, lifeVars
<1> QED BY <1>1, <1>2, <1>3, KindLadder, KindFills

LEMMA copy_sighandKeeps ==
  ASSUME Inv, NEW t \in Tasks, copy_sighand(t), UNCHANGED scenario
  PROVE  Inv'
<1>1. /\ "sighand" \in Kinds /\ "sighand" \in ChildSteps /\ "signal" \in ChildSteps /\ fork[t].at = "sighand"
      /\ fork' = [fork EXCEPT ![t].at = "signal"]
  BY DEF Kinds, ChildSteps, copy_sighand, At, Goto
<1>2. Gets(t, "sighand")
  BY DEF Gets, copy_sighand, Flag, ShareFlag
<1>3. FillFrame /\ UNCHANGED <<own, nproc>>
  BY DEF copy_sighand, FillFrame, sigVars, treeVars, secVars, lifeVars
<1> QED BY <1>1, <1>2, <1>3, KindLadder, KindFills

LEMMA copy_signalKeeps ==
  ASSUME Inv, NEW t \in Tasks, copy_signal(t), UNCHANGED scenario
  PROVE  Inv'
<1>1. /\ "signal" \in Kinds /\ "signal" \in ChildSteps /\ "mm" \in ChildSteps /\ fork[t].at = "signal"
      /\ fork' = [fork EXCEPT ![t].at = "mm"]
  BY DEF Kinds, ChildSteps, copy_signal, At, Goto
<1>2. Gets(t, "signal")
  BY DEF Gets, copy_signal, Flag, ShareFlag
<1>3. FillFrame /\ UNCHANGED <<own, nproc>>
  BY DEF copy_signal, FillFrame, sigVars, treeVars, secVars, lifeVars
<1> QED BY <1>1, <1>2, <1>3, KindLadder, KindFills

LEMMA copy_mmKeeps ==
  ASSUME Inv, NEW t \in Tasks, copy_mm(t), UNCHANGED scenario
  PROVE  Inv'
<1>1. /\ "mm" \in Kinds /\ "mm" \in ChildSteps /\ "namespaces" \in ChildSteps /\ fork[t].at = "mm"
      /\ fork' = [fork EXCEPT ![t].at = "namespaces"]
  BY DEF Kinds, ChildSteps, copy_mm, At, Goto
<1>2. Gets(t, "mm")
  BY DEF Gets, copy_mm, Flag, ShareFlag
<1>3. FillFrame /\ UNCHANGED <<own, nproc>>
  BY DEF copy_mm, FillFrame, sigVars, treeVars, secVars, lifeVars
<1> QED BY <1>1, <1>2, <1>3, KindLadder, KindFills

-----------------------------------------------------------------------------
(* The start of a fork.                                                    *)

\* What the start of a fork leaves alone.
Rest ==
    UNCHANGED <<scenario, st, own, ptr, holds, count, nproc, killed, pending, sent, seen,
                nr_threads,
                group_threads, real_parent, leader, pid_adding, filter, work, rcu_users, refs>>

\* If all but the forks stays, so does all that is said of it.
LEMMA RestKeeps ==
  ASSUME Inv, Rest, fork' \in [Tasks -> ForkStates], Forks'
  PROVE  Inv'
<1> USE DEF Rest
<1>1. Fields'
  BY DEF Inv, Fields
<1>2. Published' = Published /\ \A x \in Tasks : Signal(x)' = Signal(x) /\ Threads(x)' = Threads(x)
  BY DEF Published, Signal, Threads
<1>3. Stages'
  BY <1>2 DEF Inv, Stages, Stage
<1>4. Counted' /\ Numbers'
  BY <1>2 DEF Inv, Counted, Holders, Numbers, Procs
<1>5. Family' /\ KilledInUse' /\ SignalsReachAll' /\ ThreadsAgree'
  BY <1>2 DEF Inv, Family, KilledInUse, SignalsReachAll, ThreadsAgree, Signal
<1> QED BY <1>1, <1>3, <1>4, <1>5 DEF Inv

\* A fork that has no child before and after the step.
LEMMA Childless ==
  ASSUME Inv, Rest, NEW t \in Tasks, NEW r \in ForkStates, fork' = [fork EXCEPT ![t] = r],
         fork[t].at \notin ChildSteps, r.at \notin ChildSteps, r.child = None,
         r.at = "none" => r = NoFork,
         r.at # "none" =>
           /\ st[t] = "live"
           /\ "THREAD" \in r.flags => {"SIGHAND", "VM"} \subseteq r.flags
           /\ "THREAD" \in r.flags \/ r.base \cup r.delayed = sent
  PROVE  Inv'
<1> USE DEF Rest
<1>1. fork' \in [Tasks -> ForkStates] /\ fork'[t] = r /\ \A u \in Tasks : u # t => fork'[u] = fork[u]
  BY DEF Inv, Fields
<1>2. ASSUME NEW u \in Tasks PROVE Forking(u)'
  <2>1. CASE u = t
    BY <2>1, <1>1 DEF Forking
  <2>2. CASE u # t
    BY <2>2, <1>1 DEF Inv, Forks, Forking, ChildHas
  <2> QED BY <2>1, <2>2
<1>3. fork[t].child = None /\ None \notin Tasks
  BY RootAssumption DEF Inv, Forks, Forking
<1>4. \A u \in Tasks : fork'[u].child = fork[u].child
  BY <1>1, <1>3
<1>5. Forks'
  BY <1>2, <1>4 DEF Inv, Forks
<1> QED BY <1>1, <1>5, RestKeeps

LEMMA NoForkIs ==
  /\ NoFork \in ForkStates /\ NoFork.at = "none" /\ NoFork.child = None /\ NoFork.flags = {}
  /\ "none" \notin ChildSteps
BY DEF NoFork, ForkStates, Ats, FlagSets, ChildSteps

LEMMA fork_outKeeps ==
  ASSUME Inv, Rest, NEW t \in Tasks, fork[t].at \notin ChildSteps, fork_out(t)
  PROVE  Inv'
BY NoForkIs, Childless DEF fork_out

LEMMA multiprocessKeeps ==
  ASSUME Inv, NEW t \in Tasks, NEW flags \in scenario.flags, multiprocess(t, flags), UNCHANGED scenario
  PROVE  Inv'
<1>1. PICK r : r = [at |-> "sigpending", child |-> None, flags |-> flags, delayed |-> {},
                    base |-> seen[Signal(t)]]
  OBVIOUS
<1>2. /\ st[t] = "live" /\ fork[t] = NoFork /\ FlagsValid(t, flags) /\ fork' = [fork EXCEPT ![t] = r]
      /\ r.at = "sigpending" /\ r.child = None /\ r.flags = flags /\ r.delayed = {} /\ r.base = seen[Signal(t)]
  BY <1>1 DEF multiprocess
<1>3. seen[Signal(t)] = sent /\ sent \in SUBSET Signals
  BY <1>2 DEF Inv, SignalsReachAll, Fields
<1>4. r \in ForkStates
  BY <1>1, <1>3 DEF ForkStates, Ats, FlagSets, Inv, Fields
<1>5. "sigpending" \notin ChildSteps
  BY DEF ChildSteps
<1>6. "THREAD" \in flags => {"SIGHAND", "VM"} \subseteq flags
  BY <1>2 DEF FlagsValid
<1>7. Rest
  BY DEF multiprocess, Rest, copyVars, sigVars, treeVars, secVars, lifeVars
<1> QED BY <1>2, <1>3, <1>4, <1>5, <1>6, <1>7, NoForkIs, Childless

LEMMA task_sigpendingKeeps ==
  ASSUME Inv, NEW t \in Tasks, task_sigpending(t), UNCHANGED scenario
  PROVE  Inv'
<1>1. fork[t].at = "sigpending" /\ "sigpending" \notin ChildSteps /\ "dup_task_struct" \notin ChildSteps /\ Rest
  BY DEF task_sigpending, At, ChildSteps, Rest, copyVars, sigVars, treeVars, secVars, lifeVars
<1>2. CASE fork_out(t)
  BY <1>1, <1>2, fork_outKeeps
<1>3. CASE Goto(t, "dup_task_struct")
  <2>1. PICK r : r = [fork[t] EXCEPT !.at = "dup_task_struct"]
    OBVIOUS
  <2>2. fork[t] \in ForkStates /\ fork' = [fork EXCEPT ![t] = r]
    BY <1>3, <2>1 DEF Goto, Inv, Fields
  <2>3. /\ r \in ForkStates /\ r.at = "dup_task_struct" /\ r.child = fork[t].child
        /\ r.flags = fork[t].flags /\ r.delayed = fork[t].delayed /\ r.base = fork[t].base
    BY <2>1, <2>2 DEF ForkStates, Ats
  <2>4. Forking(t)
    BY DEF Inv, Forks
  <2>5. /\ r.child = None /\ st[t] = "live"
        /\ "THREAD" \in r.flags => {"SIGHAND", "VM"} \subseteq r.flags
        /\ "THREAD" \in r.flags \/ r.base \cup r.delayed = sent
    BY <2>3, <2>4, <1>1 DEF Forking
  <2> QED BY <1>1, <2>2, <2>3, <2>5, Childless
<1> QED BY <1>2, <1>3 DEF task_sigpending

\* The child is a copy of t that has no references yet.
LEMMA dup_task_structKeeps ==
  ASSUME Inv, NEW t \in Tasks, dup_task_struct(t), UNCHANGED scenario
  PROVE  Inv'
<1>1. fork[t].at = "dup_task_struct" /\ st[t] = "live" /\ "dup_task_struct" \notin ChildSteps
  BY DEF dup_task_struct, At, ChildSteps
<1>2. CASE fork_out(t) /\ UNCHANGED <<st, own, ptr, work, rcu_users>>
  <2>1. Rest
    BY <1>2 DEF dup_task_struct, Rest, sigVars, treeVars
  <2> QED BY <1>1, <1>2, <2>1, fork_outKeeps
<1>3. CASE \E c \in Tasks :
            /\ st[c] = "free" /\ c = CHOOSE d \in Tasks : st[d] = "free"
            /\ st' = [st EXCEPT ![c] = "new"]
            /\ own' = [own EXCEPT ![c] = @ \cup {"task", "stack"}]
            /\ ptr' = [ptr EXCEPT ![c] = ptr[t]]
            /\ work' = IF t \in work THEN work \cup {c} ELSE work \ {c}
            /\ rcu_users' = [rcu_users EXCEPT ![c] = 2]
            /\ fork' = [fork EXCEPT ![t].at = "creds", ![t].child = c]
  <2>1. PICK c \in Tasks :
            /\ st[c] = "free" /\ st' = [st EXCEPT ![c] = "new"]
            /\ own' = [own EXCEPT ![c] = own[c] \cup {"task", "stack"}]
            /\ ptr' = [ptr EXCEPT ![c] = ptr[t]]
            /\ work' = IF t \in work THEN work \cup {c} ELSE work \ {c}
            /\ rcu_users' = [rcu_users EXCEPT ![c] = 2]
            /\ fork' = [fork EXCEPT ![t].at = "creds", ![t].child = c]
    BY <1>3 DEF Inv, Fields
  <2>2. UNCHANGED <<scenario, holds, count, nproc, killed, pending, sent, seen, nr_threads,
                    group_threads,
                    real_parent, leader, pid_adding, filter, refs>>
    BY DEF dup_task_struct, sigVars, treeVars
  <2>3. Fields /\ Stage(c) /\ Stage(t) /\ fork[t] \in ForkStates /\ c # t /\ Forking(t)
    BY <2>1, <1>1 DEF Inv, Fields, Stages, Forks
  <2>4. /\ own[c] = {} /\ holds[c] = {} /\ c \notin refs /\ c \notin work
        /\ leader[c] = None /\ real_parent[c] = None /\ c \notin filter
        /\ \A k \in Kinds : ptr[t][k] \in Tasks
    BY <1>1, <2>1, <2>3 DEF Stage, Published
  <2>5. PICK r : r = [fork[t] EXCEPT !.at = "creds", !.child = c]
    OBVIOUS
  <2>6. /\ r \in ForkStates /\ r.at = "creds" /\ r.child = c /\ r.flags = fork[t].flags
        /\ r.delayed = fork[t].delayed /\ r.base = fork[t].base
    BY <2>3, <2>5 DEF ForkStates, Ats, ChildSteps
  <2>7. /\ fork' = [fork EXCEPT ![t] = r]
        /\ fork'[t] = r /\ \A u \in Tasks : u # t => fork'[u] = fork[u]
    BY <2>1, <2>3, <2>5 DEF Fields
  <2>8. /\ st'[c] = "new" /\ own'[c] = {"task", "stack"} /\ ptr'[c] = ptr[t] /\ rcu_users'[c] = 2
        /\ \A u \in Tasks : u # c => /\ st'[u] = st[u] /\ own'[u] = own[u] /\ ptr'[u] = ptr[u]
                                     /\ rcu_users'[u] = rcu_users[u] /\ (u \in work' <=> u \in work)
    BY <2>1, <2>3, <2>4 DEF Fields
  <2>9. Published' = Published /\ c \notin Published
    BY <2>1, <2>8 DEF Published
  <2>10. Fields'
    <3>1. fork' \in [Tasks -> ForkStates]
      BY <2>3, <2>6, <2>7 DEF Fields
    <3>2. own' \in [Tasks -> SUBSET Things]
      BY <2>1, <2>3 DEF Fields, Things
    <3>3. ptr' \in [Tasks -> [Kinds -> Tasks \cup {None}]] /\ rcu_users' \in [Tasks -> Int]
      BY <2>1, <2>3 DEF Fields
    <3>4. st' \in [Tasks -> States] /\ work' \subseteq Tasks
      BY <2>1, <2>3 DEF Fields, States
    <3> QED BY <3>1, <3>2, <3>3, <3>4, <2>2, <2>3 DEF Fields
  <2>11. Stages'
    <3>1. ASSUME NEW u \in Tasks, u # c PROVE Stage(u)'
      BY <3>1, <2>2, <2>8, <2>9 DEF Inv, Stages, Stage
    <3>2. Stage(c)'
      BY <2>2, <2>4, <2>8 DEF Stage
    <3>3. st'[Root] = "live"
      BY <2>1, <2>8, RootAssumption DEF Inv, Stages
    <3> QED BY <3>1, <3>2, <3>3 DEF Stages
  <2>12. Forks'
    <3>1. \A u \in Tasks : fork[u].child # c
      BY <2>1, NoForkIs, RootAssumption DEF Inv, Forks, Forking
    <3>2. ASSUME NEW u \in Tasks, u # t PROVE Forking(u)'
      <4>1. Forking(u) /\ fork'[u] = fork[u]
        BY <3>2, <2>7 DEF Inv, Forks
      <4>2. CASE fork[u].at \notin ChildSteps
        BY <4>1, <4>2, <2>1, <2>2, <2>8 DEF Forking
      <4>3. CASE fork[u].at \in ChildSteps
        <5>1. PICK d \in Tasks : d = Child(u) /\ d # c /\ st[u] = "live" /\ u # c /\ st[d] = "new"
                                 /\ d # t /\ ChildHas(u, d, fork[u].at, fork[u].flags)
          BY <4>3, <3>1, <2>1, <1>1, Kid DEF Child
        <5>2. /\ own'[d] = own[d] /\ ptr'[d] = ptr[d] /\ holds'[d] = holds[d] /\ ptr'[u] = ptr[u]
              /\ (d \in work' <=> d \in work) /\ (u \in work' <=> u \in work)
          BY <5>1, <2>2, <2>8
        <5>3. ASSUME "THREAD" \notin fork[u].flags, "signal" \in holds[d], NEW w \in Tasks \ {d}
              PROVE  ptr'[w]["signal"] # ptr[d]["signal"]
          <6>1. ptr[w]["signal"] # ptr[d]["signal"] /\ ptr[t]["signal"] # ptr[d]["signal"]
            BY <5>3, <5>1 DEF ChildHas
          <6> QED BY <6>1, <2>8, <5>3
        <5>4. ChildHas(u, d, fork[u].at, fork[u].flags)'
          BY <5>1, <5>2, <5>3, <4>1 DEF ChildHas
        <5> QED BY <4>1, <4>3, <5>1, <5>4, <2>2, <2>8 DEF Forking, Child
      <4> QED BY <4>2, <4>3
    <3>3. ChildHas(t, c, "creds", r.flags)'
      <4>1. Owed("creds") = {"stack", "task"}
        BY Ladder
      <4>2. own'[c] = (Owed("creds") \ Kinds) \ (IF "PIDFD" \in r.flags THEN {} ELSE {"pidfd"})
        BY <4>1, <2>8 DEF Kinds
      <4>3. holds'[c] = {} /\ Owed("creds") \cap Kinds = {}
        BY <4>1, <2>2, <2>4 DEF Kinds
      <4>4. ptr'[t] = ptr[t] /\ ptr'[c] = ptr[t]
        BY <2>3, <2>8
      <4>5. c \in work' => t \in work'
        BY <2>1, <2>4
      <4> QED BY <4>2, <4>3, <4>4, <4>5 DEF ChildHas
    <3>4. Forking(t)'
      <4>1. /\ st'[t] = "live" /\ "creds" \in ChildSteps /\ "creds" # "none"
            /\ "THREAD" \in r.flags => {"SIGHAND", "VM"} \subseteq r.flags
            /\ "THREAD" \in r.flags \/ r.base \cup r.delayed = sent'
        BY <1>1, <2>2, <2>3, <2>6, <2>8 DEF Forking, ChildSteps
      <4> QED BY <4>1, <3>3, <2>6, <2>7, <2>8 DEF Forking
    <3>5. \A u, v \in Tasks : fork'[u].child \in Tasks /\ fork'[u].child = fork'[v].child => u = v
      BY <3>1, <2>6, <2>7 DEF Inv, Forks
    <3>6. ASSUME NEW d \in Tasks, st'[d] = "new" PROVE \E u \in Tasks : fork'[u].child = d
      <4>1. CASE d = c
        BY <4>1, <2>6, <2>7
      <4>2. CASE d # c
        <5>1. PICK u \in Tasks : fork[u].child = d
          BY <3>6, <4>2, <2>8 DEF Inv, Forks
        <5>2. u # t
          BY <5>1, <1>1, <2>3, RootAssumption DEF Forking
        <5> QED BY <5>1, <5>2, <2>7
      <4> QED BY <4>1, <4>2
    <3> QED BY <3>2, <3>4, <3>5, <3>6 DEF Forks
  <2>13. Counted' /\ Numbers'
    <3>1. \A k \in Kinds, o \in Tasks : Holders(k, o)' = Holders(k, o)
      BY <2>2, <2>4, <2>8 DEF Holders
    <3>2. Procs' = Procs
      BY <2>1, <2>4, <2>8 DEF Procs
    <3>3. \A s \in Tasks : Threads(s)' = Threads(s)
      <4>1. \A u \in Published : ptr'[u] = ptr[u]
        BY <2>8, <2>9 DEF Published
      <4> QED BY <4>1, <2>9 DEF Threads, Signal
    <3> QED BY <3>1, <3>2, <3>3, <2>2, <2>9 DEF Inv, Counted, Numbers
  <2>14. Family' /\ KilledInUse'
    <3>1. \A u \in Published : Signal(u)' = Signal(u)
      BY <2>8, <2>9 DEF Signal, Published
    <3>2. Family'
      BY <3>1, <2>1, <2>2, <2>8, <2>9 DEF Inv, Family, Fields
    <3>3. KilledInUse'
      BY <2>1, <2>2, <2>8 DEF Inv, KilledInUse, Signal
    <3> QED BY <3>2, <3>3
  <2>15. SignalsReachAll' /\ ThreadsAgree'
    BY <2>1, <2>2, <2>8 DEF Inv, SignalsReachAll, ThreadsAgree, Signal
  <2> QED BY <2>10, <2>11, <2>12, <2>13, <2>14, <2>15 DEF Inv
<1> QED BY <1>2, <1>3 DEF dup_task_struct

-----------------------------------------------------------------------------
(* A step fails.                                                           *)

\* c gives back its references to the structures of the kinds D.
Drop(c, D) ==
    /\ D \subseteq holds[c]
    /\ count' = [k \in Kinds |-> IF k \in D THEN [count[k] EXCEPT ![ptr[c][k]] = @ - 1] ELSE count[k]]
    /\ holds' = [holds EXCEPT ![c] = @ \ D]
    /\ \A k \in holds[c] \ D : ptr'[c][k] = ptr[c][k]
    /\ \A u \in Tasks \ {c} : ptr'[u] = ptr[u]

LEMMA Drops ==
  ASSUME Inv, NEW c \in Tasks, NEW D, Drop(c, D), \A k \in Kinds : ptr[c][k] \in Tasks
  PROVE  Counted' /\ count' \in [Kinds -> [Tasks -> Int]] /\ holds' \in [Tasks -> SUBSET Kinds]
         /\ holds'[c] = holds[c] \ D /\ \A u \in Tasks : u # c => holds'[u] = holds[u]
<1>1. /\ count \in [Kinds -> [Tasks -> Int]] /\ holds \in [Tasks -> SUBSET Kinds] /\ D \subseteq Kinds
  BY DEF Inv, Fields, Drop
<1>2. /\ holds'[c] = holds[c] \ D /\ holds' \in [Tasks -> SUBSET Kinds]
      /\ \A u \in Tasks \ {c} : holds'[u] = holds[u] /\ ptr'[u] = ptr[u]
  BY <1>1 DEF Drop
<1>3. ASSUME NEW k \in Kinds
      PROVE  /\ count'[k] \in [Tasks -> Int]
             /\ \A x \in Tasks : count'[k][x] = count[k][x] - (IF k \in D /\ ptr[c][k] = x THEN 1 ELSE 0)
  <2>1. CASE k \in D
    <3>1. count'[k] = [count[k] EXCEPT ![ptr[c][k]] = @ - 1]
      BY <2>1 DEF Drop
    <3> QED BY <1>1, <2>1, <3>1
  <2>2. CASE k \notin D
    BY <1>1, <2>2 DEF Drop
  <2> QED BY <2>1, <2>2
<1>4. ASSUME NEW k \in Kinds, NEW x \in Tasks
      PROVE  count'[k][x] = count[k][x] + RefTo(holds'[c], ptr'[c], k, x) - RefTo(holds[c], ptr[c], k, x)
  <2>1. count[k][x] \in Int /\ (k \in D => k \in holds[c])
    BY <1>1 DEF Drop
  <2>2. CASE k \in D
    BY <1>2, <1>3, <2>1, <2>2 DEF RefTo
  <2>3. CASE k \notin D
    <3>1. RefTo(holds'[c], ptr'[c], k, x) = RefTo(holds[c], ptr[c], k, x)
      BY <1>2, <2>3 DEF RefTo, Drop
    <3>2. count[k][x] = count[k][x] + RefTo(holds[c], ptr[c], k, x) - RefTo(holds[c], ptr[c], k, x)
      BY <2>1, NoneTaken
    <3> QED BY <1>3, <2>1, <2>3, <3>1, <3>2
  <2> QED BY <2>2, <2>3
<1>5. Counted'
  BY <1>2, <1>4, CountsKeep
<1>6. count' \in [Kinds -> [Tasks -> Int]]
  BY <1>3 DEF Drop
<1> QED BY <1>2, <1>5, <1>6

\* The number of processes stays exact if c alone appears or goes.
ProcMoves(c) ==
    /\ \A u \in Tasks : u # c => own'[u] = own[u] /\ st'[u] = st[u]
    /\ nproc' = nproc + Has(Procs', c) - Has(Procs, c)

LEMMA ProcsKeep ==
  ASSUME Inv, NEW c \in Tasks, ProcMoves(c)
  PROVE  nproc' = Cardinality(Procs')
<1>1. PICK A, B : A = Procs /\ B = Procs'
  OBVIOUS
<1>2. IsFiniteSet(A) /\ \A u : u # c => (u \in A <=> u \in B)
  BY <1>1, FiniteParts DEF Procs, ProcMoves
<1>3. Cardinality(B) = Cardinality(A) + Has(B, c) - Has(A, c)
  BY <1>2, SetMoves
<1> QED BY <1>1, <1>3 DEF Inv, Numbers, ProcMoves

\* What c does for itself does not disturb the forks of the others: c is not a child, and no new
\* structure of theirs becomes c's.
OwnBusiness(c) ==
    /\ UNCHANGED sent
    /\ \A u \in Tasks : u # c => /\ st'[u] = st[u] /\ own'[u] = own[u] /\ ptr'[u] = ptr[u]
                                 /\ holds'[u] = holds[u] /\ (u \in work' <=> u \in work)
    /\ ptr'[c]["signal"] = ptr[c]["signal"] \/ ptr'[c]["signal"] = None

LEMMA OthersFork ==
  ASSUME Inv, NEW c \in Tasks, OwnBusiness(c), NEW u \in Tasks, u # c, fork'[u] = fork[u], fork[u].child # c
  PROVE  Forking(u)'
<1>1. Forking(u)
  BY DEF Inv, Forks
<1>2. CASE fork[u].at \notin ChildSteps
  BY <1>1, <1>2 DEF Forking, OwnBusiness
<1>3. CASE fork[u].at \in ChildSteps
  <2>1. PICK d \in Tasks : d = Child(u) /\ d # c /\ st[u] = "live" /\ st[d] = "new"
                           /\ ChildHas(u, d, fork[u].at, fork[u].flags) /\ None \notin Tasks
    BY <1>3, Kid, RootAssumption DEF Child
  <2>2. /\ own'[d] = own[d] /\ ptr'[d] = ptr[d] /\ holds'[d] = holds[d] /\ ptr'[u] = ptr[u]
        /\ (d \in work' => u \in work')
    BY <2>1 DEF OwnBusiness, ChildHas
  <2>3. ASSUME "THREAD" \notin fork[u].flags, "signal" \in holds[d], NEW w \in Tasks \ {d}
        PROVE  ptr'[w]["signal"] # ptr[d]["signal"]
    <3>1. ptr[w]["signal"] # ptr[d]["signal"] /\ ptr[d]["signal"] \in Tasks
      BY <2>1, <2>3 DEF ChildHas, Inv, Stages, Stage, Kinds
    <3>2. CASE w = c
      BY <2>1, <3>1, <3>2 DEF OwnBusiness
    <3>3. CASE w # c
      BY <3>1, <3>3 DEF OwnBusiness
    <3> QED BY <3>2, <3>3
  <2>4. ChildHas(u, d, fork[u].at, fork[u].flags)'
    BY <1>1, <2>1, <2>2, <2>3 DEF ChildHas
  <2> QED BY <1>1, <1>3, <2>1, <2>4 DEF Forking, OwnBusiness, Child
<1> QED BY <1>2, <1>3

\* The fork of t ends, its child c is no child any more.
LEMMA ForkEnds ==
  ASSUME Inv, NEW t \in Tasks, fork[t].at \in ChildSteps, NEW c \in Tasks, c = Child(t), OwnBusiness(c),
         fork' = [fork EXCEPT ![t] = NoFork], st'[c] # "new"
  PROVE  Forks'
<1>1. c # t /\ st[c] = "new" /\ (\A u \in Tasks : u # t => fork[u].child # c) /\ None \notin Tasks
  BY Kid, RootAssumption
<1>2. fork'[t] = NoFork /\ \A u \in Tasks : u # t => fork'[u] = fork[u]
  BY DEF Inv, Fields
<1>3. ASSUME NEW u \in Tasks, u # t PROVE Forking(u)'
  <2>1. CASE u = c
    <3>1. fork[u].at = "none" /\ fork'[u] = NoFork
      BY <1>1, <1>2, <1>3, <2>1 DEF Inv, Forks, Forking
    <3> QED BY <3>1, NoForkIs DEF Forking
  <2>2. CASE u # c
    BY <1>1, <1>2, <1>3, <2>2, OthersFork
  <2> QED BY <2>1, <2>2
<1>4. Forking(t)'
  BY <1>2, NoForkIs DEF Forking
<1>5. \A u, v \in Tasks : fork'[u].child \in Tasks /\ fork'[u].child = fork'[v].child => u = v
  BY <1>1, <1>2, NoForkIs DEF Inv, Forks
<1>6. ASSUME NEW d \in Tasks, st'[d] = "new" PROVE \E u \in Tasks : fork'[u].child = d
  <2>1. d # c /\ st[d] = "new"
    BY <1>6 DEF OwnBusiness
  <2>2. PICK u \in Tasks : fork[u].child = d
    BY <2>1 DEF Inv, Forks
  <2> QED BY <1>2, <2>1, <2>2 DEF Child
<1> QED BY <1>3, <1>4, <1>5, <1>6 DEF Forks

\* The child of t gives back all it has.
Returns(t, G) ==
    LET c == Child(t) IN
    /\ Drop(c, holds[c])
    /\ own' = [own EXCEPT ![c] = @ \ G] /\ own[c] \subseteq G
    /\ nproc' = IF "creds" \in own[c] THEN nproc - 1 ELSE nproc
    /\ ptr' = [ptr EXCEPT ![c] = [k \in Kinds |-> None]]
    /\ st' = [st EXCEPT ![c] = "free"]
    /\ rcu_users' = [rcu_users EXCEPT ![c] = 0]
    /\ work' = work \ {c}
    /\ fork_out(t)
    /\ UNCHANGED <<scenario, killed, pending, sent, seen, nr_threads, group_threads, real_parent,
                   leader,
                   pid_adding, filter, refs>>

LEMMA ReturnsKeeps ==
  ASSUME Inv, NEW t \in Tasks, fork[t].at \in ChildSteps, NEW G, Returns(t, G)
  PROVE  Inv'
<1> USE DEF Returns
<1>1. PICK c \in Tasks :
        /\ c = Child(t) /\ c # t /\ st[t] = "live" /\ st[c] = "new" /\ c \notin Published /\ c # Root
        /\ \A u \in Tasks : u # t => fork[u].child # c
  BY Kid
<1>2. /\ Fields /\ Stage(c) /\ None \notin Tasks /\ fork' = [fork EXCEPT ![t] = NoFork]
      /\ \A k \in Kinds : ptr[c][k] \in Tasks
  BY <1>1, RootAssumption DEF Inv, Stages, Stage, fork_out
<1>3. /\ st'[c] = "free" /\ own'[c] = {} /\ rcu_users'[c] = 0 /\ c \notin work' /\ fork'[t] = NoFork
      /\ \A k \in Kinds : ptr'[c][k] = None
      /\ \A u \in Tasks : u # c => /\ st'[u] = st[u] /\ own'[u] = own[u] /\ ptr'[u] = ptr[u]
                                   /\ rcu_users'[u] = rcu_users[u] /\ (u \in work' <=> u \in work)
      /\ \A u \in Tasks : u # t => fork'[u] = fork[u]
  BY <1>1, <1>2 DEF Fields
<1>4. /\ Counted' /\ count' \in [Kinds -> [Tasks -> Int]] /\ holds' \in [Tasks -> SUBSET Kinds]
      /\ holds'[c] = {} /\ \A u \in Tasks : u # c => holds'[u] = holds[u]
  <2>1. Drop(c, holds[c]) /\ \A k \in Kinds : ptr[c][k] \in Tasks
    BY <1>1, <1>2
  <2> QED BY <1>1, <2>1, Drops
<1>5. Published' = Published /\ \A u \in Published : ptr'[u] = ptr[u]
  BY <1>1, <1>3 DEF Published
<1>6. Fields'
  <2>1. fork' \in [Tasks -> ForkStates]
    <3>1. fork \in [Tasks -> ForkStates]
      BY <1>2 DEF Fields
    <3> QED BY <1>2, <3>1, NoForkIs
  <2>2. own' \in [Tasks -> SUBSET Things] /\ st' \in [Tasks -> States] /\ work' \subseteq Tasks
    BY <1>2 DEF Fields, States
  <2>3. ptr' \in [Tasks -> [Kinds -> Tasks \cup {None}]] /\ rcu_users' \in [Tasks -> Int]
    <3>1. PICK none : none = [k \in Kinds |-> None]
      OBVIOUS
    <3>2. none \in [Kinds -> Tasks \cup {None}] /\ ptr' = [ptr EXCEPT ![c] = none]
      BY <1>1, <3>1
    <3> QED BY <1>1, <1>2, <3>2 DEF Fields
  <2> QED BY <1>2, <1>4, <2>1, <2>2, <2>3 DEF Fields
<1>7. Stages'
  <2>1. ASSUME NEW u \in Tasks, u # c PROVE Stage(u)'
    BY <2>1, <1>3, <1>4, <1>5 DEF Inv, Stages, Stage
  <2>2. Stage(c)'
    <3>1. c \notin refs /\ leader[c] = None /\ real_parent[c] = None /\ c \notin filter
      BY <1>1, <1>2 DEF Stage
    <3> QED BY <1>3, <1>4, <3>1 DEF Stage
  <2>3. st'[Root] = "live"
    BY <1>1, <1>3, RootAssumption DEF Inv, Stages
  <2> QED BY <2>1, <2>2, <2>3 DEF Stages
<1>8. Forks'
  <2>1. OwnBusiness(c)
    BY <1>3, <1>4 DEF OwnBusiness, Kinds
  <2>2. st'[c] # "new"
    BY <1>3
  <2> QED BY <1>1, <1>2, <2>1, <2>2, ForkEnds
<1>9. Numbers'
  <2>1. c \in Procs <=> "creds" \in own[c]
    BY <1>1 DEF Procs
  <2>2. c \notin Procs'
    BY <1>3 DEF Procs
  <2>3. ProcMoves(c)
    BY <1>1, <1>3, <2>1, <2>2, Integral DEF ProcMoves, Has
  <2>4. nproc' = Cardinality(Procs')
    BY <2>3, ProcsKeep
  <2>5. \A x \in Tasks : Threads(x)' = Threads(x)
    BY <1>2, <1>5 DEF Threads, Signal
  <2> QED BY <1>5, <2>4, <2>5 DEF Inv, Numbers
<1>10. Family'
  <2>1. \A u \in Published : Signal(u)' = Signal(u)
    BY <1>5 DEF Signal
  <2>2. \A u \in Tasks : real_parent[u] # None => st'[real_parent[u]] = "live"
    BY <1>1, <1>3 DEF Inv, Family, Fields
  <2> QED BY <1>5, <2>1, <2>2 DEF Inv, Family
<1>11. KilledInUse' /\ SignalsReachAll' /\ ThreadsAgree'
  <2>1. \A u \in Tasks : u # c => Signal(u)' = Signal(u)
    BY <1>3 DEF Signal
  <2>2. KilledInUse'
    BY <1>1, <1>3, <2>1 DEF Inv, KilledInUse
  <2>3. \A u \in Tasks : st'[u] = "live" =>
         u # c /\ st[u] = "live" /\ ptr'[u] = ptr[u] /\ (u \in work' <=> u \in work)
    BY <1>3
  <2> QED BY <2>1, <2>2, <2>3 DEF Inv, SignalsReachAll, ThreadsAgree
<1> QED BY <1>4, <1>6, <1>7, <1>8, <1>9, <1>10, <1>11 DEF Inv

\* Unwinding from the right label.
LEMMA UnwindKeeps ==
  ASSUME Inv, NEW t \in Tasks, fork[t].at \in ChildSteps, NEW s \in ChildSteps,
         Owed(s) = Owed(fork[t].at) \/ (s = "cgroup" /\ fork[t].at = "pidfd"), Unwind(t, FailLabel(s)),
         UNCHANGED <<scenario, sigVars, treeVars, filter, refs>>
  PROVE  Inv'
<1>1. PICK c, F : c = Child(t) /\ F = fork[t].flags
  OBVIOUS
<1>2. c \in Tasks /\ ChildHas(t, c, fork[t].at, F) /\ \A k \in Kinds : ptr[c][k] \in Tasks
  BY <1>1, Kid DEF Inv, Stages, Stage
<1>3. PICK G : G = GivenFrom(t, FailLabel(s)) /\ G = Owed(s) \ (IF "THREAD" \in F THEN {"signal"} ELSE {})
  <2>1. GivenFrom(t, FailLabel(s)) = Owed(s) \ (IF Flag(t, "THREAD") THEN {"signal"} ELSE {})
    BY DEF GivenFrom, Owed
  <2>2. Flag(t, "THREAD") <=> "THREAD" \in F
    BY <1>1 DEF Flag
  <2> QED BY <2>1, <2>2
<1>4. /\ own[c] = (Owed(fork[t].at) \ Kinds) \ (IF "PIDFD" \in F THEN {} ELSE {"pidfd"})
      /\ holds[c] = (Owed(fork[t].at) \cap Kinds) \ (IF "THREAD" \in F THEN {"signal"} ELSE {})
  BY <1>2 DEF ChildHas
<1>5. Owed("cgroup") = Owed("pidfd") \cup {"pidfd"}
      /\ "pidfd" \notin Kinds /\ "creds" \notin Kinds /\ "signal" \in Kinds
  BY Ladder DEF Kinds
<1>6. Owed(fork[t].at) \subseteq Owed(s) /\ Owed(s) \subseteq Owed(fork[t].at) \cup {"pidfd"}
  BY <1>5
<1>7. own[c] \subseteq G /\ holds[c] = Kinds \cap G /\ ("creds" \in G <=> "creds" \in own[c])
  BY <1>3, <1>4, <1>5, <1>6
<1>8. Dropped(t, FailLabel(s)) = holds[c]
  BY <1>1, <1>2, <1>3, <1>7, RootAssumption DEF Dropped
<1>9. \A u \in Tasks \ {c} : ptr'[u] = ptr[u]
  BY <1>1, <1>2 DEF Unwind, Inv, Fields
<1>10. Drop(c, holds[c])
  BY <1>1, <1>2, <1>8, <1>9 DEF Unwind, Drop
<1>11. Returns(t, G)
  BY <1>1, <1>3, <1>7, <1>10 DEF Returns, Unwind, sigVars, treeVars
<1> QED BY <1>11, ReturnsKeeps

LEMMA FailKeeps ==
  ASSUME Inv, NEW t \in Tasks, Fail(t, fork[t].at), UNCHANGED scenario
  PROVE  Inv'
<1>1. fork[t].at \in Ats /\ CanFail(t, fork[t].at)
  BY DEF Inv, Fields, ForkStates, Fail
<1>2. fork[t].at \in ChildSteps
  BY <1>1 DEF Ats, CanFail
<1> QED BY <1>2, UnwindKeeps DEF Fail

LEMMA pidfd_put_user_failsKeeps ==
  ASSUME Inv, NEW t \in Tasks, pidfd_put_user_fails(t), UNCHANGED scenario
  PROVE  Inv'
<1>1. fork[t].at = "pidfd" /\ "pidfd" \in ChildSteps /\ "cgroup" \in ChildSteps
  BY DEF pidfd_put_user_fails, At, ChildSteps
<1>2. FailLabel("cgroup") = "bad_fork_put_pidfd"
  BY DEF FailLabel
<1> QED BY <1>1, <1>2, UnwindKeeps DEF pidfd_put_user_fails

-----------------------------------------------------------------------------
(* The child becomes visible.                                              *)

\* What the child has by then.
LEMMA Complete ==
  ASSUME Inv, NEW t \in Tasks, NEW c, c = Child(t), fork[t].at = "publish"
  PROVE  /\ {"task", "stack", "creds", "pid"} \subseteq own[c]
         /\ holds[c] = Kinds \ (IF "THREAD" \in fork[t].flags THEN {"signal"} ELSE {})
         /\ c \in work => t \in work
         /\ "THREAD" \in fork[t].flags => \A k \in {"signal", "sighand", "mm"} : ptr[c][k] = ptr[t][k]
         /\ "THREAD" \notin fork[t].flags => \A u \in Tasks \ {c} : ptr[u]["signal"] # ptr[c]["signal"]
<1> PICK F : F = fork[t].flags
  OBVIOUS
<1>1. ChildHas(t, c, "publish", F) /\ ("THREAD" \in F => {"SIGHAND", "VM"} \subseteq F)
  BY Kid DEF ChildSteps
<1>2. {"task", "stack", "creds", "pid"} \subseteq Owed("publish") /\ Kinds \subseteq Owed("publish")
  BY Ladder DEF Kinds
<1>3. {"task", "stack", "creds", "pid"} \subseteq own[c]
  BY <1>1, <1>2 DEF ChildHas, Kinds
<1>4. holds[c] = Kinds \ (IF "THREAD" \in F THEN {"signal"} ELSE {})
  BY <1>1, <1>2 DEF ChildHas
<1>5. ASSUME "THREAD" \in F, NEW k \in {"signal", "sighand", "mm"} PROVE ptr[c][k] = ptr[t][k]
  <2>1. k \in Kinds /\ ShareFlag[k] \in F
    BY <1>1, <1>5 DEF Kinds, ShareFlag
  <2> QED BY <1>1, <2>1 DEF ChildHas
<1>6. ASSUME "THREAD" \notin F PROVE \A u \in Tasks \ {c} : ptr[u]["signal"] # ptr[c]["signal"]
  BY <1>1, <1>4, <1>6 DEF ChildHas, Kinds
<1> QED BY <1>1, <1>3, <1>4, <1>5, <1>6 DEF ChildHas

\* The two ways to become visible, in what they do to the counts and signals.
LEMMA publish_processFacts ==
  ASSUME Inv, NEW t \in Tasks, NEW c \in Tasks, c = Child(t), fork[t].at = "publish",
         "THREAD" \notin fork[t].flags, publish_process(t), UNCHANGED <<ptr, sent>>
  PROVE  /\ Counted' /\ UNCHANGED <<count, holds>> /\ holds[c] = Kinds
         /\ seen' \in [Tasks -> SUBSET Signals] /\ pending' \subseteq Tasks
         /\ leader' = [leader EXCEPT ![c] = c] /\ group_threads' = [group_threads EXCEPT ![Signal(c)] = 1]
         /\ seen'[Signal(c)] = sent /\ \A u \in Tasks : u # c /\ st[u] = "live" => seen'[Signal(u)] = sent
<1>1. /\ Signal(c) \in Tasks /\ Forking(t) /\ fork[t] \in ForkStates /\ st[c] = "new"
      /\ \A u \in Tasks : u # c => Signal(u) # Signal(c)
  <2>1. st[c] = "new" /\ "publish" \in ChildSteps
    BY Kid DEF ChildSteps
  <2>2. Signal(c) \in Tasks
    BY <2>1 DEF Inv, Stages, Stage, Signal, Kinds
  <2>3. \A u \in Tasks : u # c => Signal(u) # Signal(c)
    BY Complete DEF Signal
  <2> QED BY <2>1, <2>2, <2>3 DEF Inv, Forks, Fields
<1>2. /\ fork[t].base \cup fork[t].delayed = sent /\ sent \in SUBSET Signals
      /\ seen \in [Tasks -> SUBSET Signals] /\ pending \subseteq Tasks
  BY <1>1 DEF Forking, Inv, Fields
<1>3. /\ seen' = [seen EXCEPT ![Signal(c)] = sent]
      /\ pending' \subseteq pending \cup {Signal(c)} /\ UNCHANGED <<count, holds>>
      /\ leader' = [leader EXCEPT ![c] = c] /\ group_threads' = [group_threads EXCEPT ![Signal(c)] = 1]
  BY <1>2 DEF publish_process, InheritSignals, Signal
<1>4. \A u \in Tasks : st[u] = "live" => seen[Signal(u)] = sent /\ Signal(u) \in Tasks
  BY DEF Inv, SignalsReachAll, Stages, Stage, Signal, Kinds
<1>5. Counted'
  BY <1>3 DEF Inv, Counted, Holders
<1>6. holds[c] = Kinds
  <2>1. holds[c] = Kinds \ {}
    BY Complete
  <2> QED BY <2>1
<1> QED BY <1>1, <1>2, <1>3, <1>4, <1>5, <1>6

LEMMA publish_threadFacts ==
  ASSUME Inv, NEW t \in Tasks, NEW c \in Tasks, c = Child(t), fork[t].at = "publish",
         "THREAD" \in fork[t].flags, publish_thread(t), UNCHANGED ptr
  PROVE  /\ Counted' /\ count' \in [Kinds -> [Tasks -> Int]] /\ UNCHANGED <<seen, pending>>
         /\ holds' = [holds EXCEPT ![c] = Kinds] /\ leader' = [leader EXCEPT ![c] = leader[t]]
         /\ Signal(c) = Signal(t) /\ Signal(t) \in Tasks
         /\ group_threads' = [group_threads EXCEPT ![Signal(t)] = group_threads[Signal(t)] + 1]
<1>1. /\ Signal(c) = Signal(t) /\ holds[c] = Kinds \ {"signal"} /\ "signal" \in Kinds
  BY Complete DEF Signal, Kinds
<1>2. st[t] = "live" /\ Signal(t) \in Tasks
  BY Kid DEF ChildSteps, Inv, Stages, Stage, Signal, Kinds
<1>3. /\ count \in [Kinds -> [Tasks -> Int]] /\ holds \in [Tasks -> SUBSET Kinds]
      /\ ptr \in [Tasks -> [Kinds -> Tasks \cup {None}]] /\ group_threads \in [Tasks -> Int]
  BY DEF Inv, Fields
<1>4. holds' = [holds EXCEPT ![c] = Kinds] /\ UNCHANGED <<seen, pending>>
      /\ leader' = [leader EXCEPT ![c] = leader[t]]
      /\ group_threads' = [group_threads EXCEPT ![Signal(t)] = group_threads[Signal(t)] + 1]
  BY <1>1, <1>3 DEF publish_thread
<1>5. PICK x, n, p, h : x = Signal(t) /\ n = count["signal"][x] + 1 /\ p = ptr[c] /\ h = Kinds
  OBVIOUS
<1>6. p = [ptr[c] EXCEPT !["signal"] = Signal(t)]
  BY <1>1, <1>3, <1>5 DEF Signal
<1>7. Gain(c, "signal", x, n, p, h) /\ x \in Tasks /\ "signal" \in Kinds
  BY <1>1, <1>2, <1>5, <1>6 DEF Gain, publish_thread
<1>8. /\ count' \in [Kinds -> [Tasks -> Int]]
      /\ \A j \in Kinds, y \in Tasks :
            count'[j][y] = count[j][y] + RefTo(h, p, j, y) - RefTo(holds[c], ptr[c], j, y)
  BY <1>7, Gains
<1>9. ptr' = ptr /\ ptr'[c] = p /\ holds'[c] = h /\ \A u \in Tasks \ {c} : holds'[u] = holds[u]
  BY <1>3, <1>4, <1>5
<1>10. Counted'
  <2>1. /\ \A u \in Tasks \ {c} : holds'[u] = holds[u] /\ ptr'[u] = ptr[u]
        /\ \A k \in Kinds, y \in Tasks :
              count'[k][y] = count[k][y] + RefTo(holds'[c], ptr'[c], k, y) - RefTo(holds[c], ptr[c], k, y)
    BY <1>8, <1>9
  <2> QED BY <2>1, CountsKeep
<1> QED BY <1>1, <1>2, <1>4, <1>8, <1>10

\* What both ways have in common.
Appears(t, c) ==
    /\ c = Child(t) /\ fork[t].at = "publish" /\ copy_seccomp(t, c)
    /\ st' = [st EXCEPT ![c] = "live"] /\ own' = [own EXCEPT ![c] = @ \ {"cgroup", "pidfd"}]
    /\ fork' = [fork EXCEPT ![t] = NoFork] /\ holds' = [holds EXCEPT ![c] = Kinds]
    /\ real_parent' = [real_parent EXCEPT ![c] = real_parent_of(t)]
    /\ nr_threads' = nr_threads + 1
    /\ UNCHANGED <<scenario, ptr, nproc, killed, sent, pid_adding, rcu_users, refs>>

\* How c, with leader l, fits in with the threads and signals that are there.
Joins(t, c, l) ==
    /\ Counted' /\ count' \in [Kinds -> [Tasks -> Int]]
    /\ seen' \in [Tasks -> SUBSET Signals] /\ pending' \subseteq Tasks
    /\ leader' = [leader EXCEPT ![c] = l] /\ group_threads' \in [Tasks -> Int]
    /\ l = c \/ (l \in Published /\ Signal(l) = Signal(c) /\ leader[l] = l)
    /\ \A s \in Tasks : s # Signal(c) => group_threads'[s] = group_threads[s]
    /\ group_threads'[Signal(c)] = (IF Threads(Signal(c)) = {} THEN 0 ELSE group_threads[Signal(c)]) + 1
    /\ seen'[Signal(c)] = sent /\ \A u \in Tasks : u # c /\ st[u] = "live" => seen'[Signal(u)] = sent
    /\ \A u \in Tasks : u # c /\ st[u] = "live" /\ Signal(u) = Signal(c)
          => Signal(t) = Signal(c) /\ ptr[c]["mm"] = ptr[t]["mm"] /\ ptr[c]["sighand"] = ptr[t]["sighand"]

LEMMA AppearsKeeps ==
  ASSUME Inv, NEW t \in Tasks, NEW c \in Tasks, Appears(t, c), NEW l \in Tasks, Joins(t, c, l)
  PROVE  Inv'
<1> USE DEF Joins
<1> USE DEF Appears
<1>1. /\ c = Child(t) /\ c # t /\ st[t] = "live" /\ st[c] = "new" /\ c \notin Published /\ c # Root
      /\ fork[t].at \in ChildSteps
  BY Kid DEF ChildSteps
<1>2. /\ Fields /\ Stage(c) /\ None \notin Tasks /\ \A k \in Kinds : ptr[c][k] \in Tasks
  BY <1>1, RootAssumption DEF Inv, Stages, Stage
<1>3. /\ st'[c] = "live" /\ own'[c] = own[c] \ {"cgroup", "pidfd"} /\ holds'[c] = Kinds /\ leader'[c] = l
      /\ real_parent'[c] = real_parent_of(t)
      /\ \A u \in Tasks : u # c => /\ st'[u] = st[u] /\ own'[u] = own[u] /\ holds'[u] = holds[u]
                                   /\ leader'[u] = leader[u] /\ real_parent'[u] = real_parent[u]
      /\ \A u \in Tasks : Signal(u)' = Signal(u)
  BY <1>2 DEF Fields, Signal
<1>4. /\ c \in filter' <=> t \in filter
      /\ c \in work' <=> t \in work
      /\ \A u \in Tasks : u # c => (u \in filter' <=> u \in filter) /\ (u \in work' <=> u \in work)
      /\ filter' \subseteq Tasks /\ work' \subseteq Tasks
  <2>1. (t \in filter <=> t \in work) /\ (c \in work => t \in work)
    BY <1>1, Complete DEF Inv, ThreadsAgree
  <2> QED BY <1>2, <2>1 DEF copy_seccomp, Fields
<1>5. real_parent_of(t) \in Tasks \cup {None}
      /\ (real_parent_of(t) # None => real_parent_of(t) # c /\ st[real_parent_of(t)] = "live")
  BY <1>1, <1>2 DEF real_parent_of, Inv, Family, Fields
<1>6. /\ Published' = Published \cup {c} 
      /\ \A x \in Tasks : Threads(x)' = IF x = Signal(c) THEN Threads(x) \cup {c} ELSE Threads(x)
      /\ c \notin Threads(Signal(c))
  <2>1. Published' = Published \cup {c}
    BY <1>3 DEF Published
  <2>2. \A u \in Tasks : Signal(u)' = Signal(u)
    BY <1>3
  <2>3. ASSUME NEW x \in Tasks PROVE Threads(x)' = {u \in Published \cup {c} : Signal(u) = x}
    BY <2>1, <2>2 DEF Threads, Published
  <2>4. Signal(c) \in Tasks
    BY <1>2 DEF Signal, Kinds
  <2> QED BY <1>1, <2>1, <2>3, <2>4 DEF Threads
<1>7. Fields'
  <2>1. fork' \in [Tasks -> ForkStates]
    <3>1. fork \in [Tasks -> ForkStates]
      BY <1>2 DEF Fields
    <3> QED BY <3>1, NoForkIs
  <2>2. own' \in [Tasks -> SUBSET Things] /\ st' \in [Tasks -> States] /\ holds' \in [Tasks -> SUBSET Kinds]
    BY <1>2 DEF Fields, States
  <2>3. leader' \in [Tasks -> Tasks \cup {None}] /\ real_parent' \in [Tasks -> Tasks \cup {None}]
    BY <1>2, <1>5 DEF Fields
  <2> QED BY <1>2, <1>4, <2>1, <2>2, <2>3 DEF Fields
<1>8. Stages'
  <2>1. ASSUME NEW u \in Tasks, u # c PROVE Stage(u)'
    BY <2>1, <1>3, <1>4, <1>6 DEF Inv, Stages, Stage
  <2>2. Stage(c)'
    <3>1. {"task", "stack", "creds", "pid"} \subseteq own'[c] /\ rcu_users'[c] = 2
      BY <1>1, <1>2, <1>3, Complete DEF Stage
    <3>2. \A k \in Kinds : ptr'[c][k] \in Tasks
      BY <1>2
    <3> QED BY <1>3, <1>6, <3>1, <3>2 DEF Stage
  <2>3. st'[Root] = "live"
    BY <1>1, <1>3, RootAssumption DEF Inv, Stages
  <2> QED BY <2>1, <2>2, <2>3 DEF Stages
<1>9. Forks'
  <2>1. OwnBusiness(c)
    BY <1>3, <1>4 DEF OwnBusiness
  <2>2. st'[c] # "new"
    BY <1>3
  <2> QED BY <1>1, <2>1, <2>2, ForkEnds
<1>10. Numbers'
  <2>1. nproc' = Cardinality(Procs')
    <3>1. Procs' = Procs
      BY <1>1, <1>3, Complete DEF Procs
    <3> QED BY <3>1 DEF Inv, Numbers
  <2>2. nr_threads' = Cardinality(Published')
    <3>1. IsFiniteSet(Published)
      BY FiniteParts DEF Published
    <3> QED BY <1>1, <1>6, <3>1, FS_AddElement DEF Inv, Numbers
  <2>3. ASSUME NEW s \in Tasks, Threads(s)' # {}
        PROVE  group_threads'[s] = Cardinality(Threads(s)')
    <3>1. CASE s # Signal(c)
      BY <1>6, <2>3, <3>1 DEF Inv, Numbers
    <3>2. CASE s = Signal(c)
      <4>1. IsFiniteSet(Threads(s))
        BY FiniteParts DEF Threads, Published
      <4>2. Cardinality(Threads(s)') = Cardinality(Threads(s)) + 1
        <5>1. Threads(s)' = Threads(s) \cup {c} /\ c \notin Threads(s)
          BY <1>6, <3>2
        <5>2. Cardinality(Threads(s) \cup {c}) = Cardinality(Threads(s)) + 1
          BY <4>1, <5>1, FS_AddElement
        <5> QED BY <5>1, <5>2
      <4>3. CASE Threads(s) = {}
        BY <3>2, <4>2, <4>3, FS_EmptySet
      <4>4. CASE Threads(s) # {}
        BY <3>2, <4>2, <4>4 DEF Inv, Numbers
      <4> QED BY <4>3, <4>4
    <3> QED BY <3>1, <3>2
  <2> QED BY <2>1, <2>2, <2>3 DEF Numbers
<1>11. Family'
  <2>1. ASSUME NEW u \in Tasks, u \in Published'
        PROVE  leader'[u] \in Published' /\ ptr'[leader'[u]]["signal"] = ptr'[u]["signal"]
               /\ leader'[leader'[u]] = leader'[u]
    <3>1. CASE u = c
      <4>1. CASE l = c
        BY <1>3, <1>6, <3>1, <4>1
      <4>2. CASE l # c
        BY <1>1, <1>3, <1>6, <3>1, <4>2 DEF Signal
      <4> QED BY <4>1, <4>2
    <3>2. CASE u # c
      <4>1. u \in Published /\ leader[u] \in Published /\ Signal(leader[u]) = Signal(u)
            /\ leader[leader[u]] = leader[u] /\ u \in Tasks /\ leader[u] \in Tasks /\ leader[u] # c
        BY <1>1, <1>6, <2>1, <3>2 DEF Inv, Family, Published
      <4> QED BY <1>3, <1>6, <3>2, <4>1 DEF Signal
    <3> QED BY <3>1, <3>2
  <2>2. ASSUME NEW u \in Tasks, real_parent'[u] # None PROVE st'[real_parent'[u]] = "live"
    <3>1. CASE u = c
      BY <1>3, <1>5, <2>2, <3>1
    <3>2. CASE u # c
      <4>1. real_parent[u] \in Tasks /\ st[real_parent[u]] = "live" /\ real_parent'[u] = real_parent[u]
        BY <1>2, <1>3, <2>2, <3>2 DEF Inv, Family, Fields
      <4> QED BY <1>1, <1>3, <4>1
    <3> QED BY <3>1, <3>2
  <2> QED BY <2>1, <2>2 DEF Family, Published, Signal
<1>12. KilledInUse'
  BY <1>1, <1>3 DEF Inv, KilledInUse
<1>13. SignalsReachAll'
  BY <1>1, <1>3 DEF Inv, SignalsReachAll
<1>14. ThreadsAgree'
  <2>1. ASSUME NEW u \in Tasks, u # c, st[u] = "live", Signal(u) = Signal(c)
        PROVE  ptr[u]["mm"] = ptr[c]["mm"] /\ ptr[u]["sighand"] = ptr[c]["sighand"]
               /\ (u \in filter <=> t \in filter)
    BY <1>1, <2>1 DEF Inv, ThreadsAgree
  <2>2. t \in filter <=> t \in work
    BY <1>1 DEF Inv, ThreadsAgree
  <2>3. ASSUME NEW u \in Tasks, NEW w \in Tasks, st'[u] = "live", st'[w] = "live"
        PROVE  /\ u \in filter' <=> u \in work'
               /\ Signal(u)' = Signal(w)' =>
                    /\ ptr'[u]["mm"] = ptr'[w]["mm"] /\ ptr'[u]["sighand"] = ptr'[w]["sighand"]
                    /\ u \in filter' <=> w \in filter'
    <3>1. CASE u = c /\ w = c
      BY <1>4, <2>2, <3>1
    <3>2. CASE u = c /\ w # c
      BY <1>3, <1>4, <2>1, <2>2, <2>3, <3>2
    <3>3. CASE u # c /\ w = c
      <4>1. u \in filter <=> u \in work
        BY <1>3, <2>3, <3>3 DEF Inv, ThreadsAgree
      <4> QED BY <1>3, <1>4, <2>1, <2>3, <3>3, <4>1
    <3>4. CASE u # c /\ w # c
      <4>1. st[u] = "live" /\ st[w] = "live"
        BY <1>3, <2>3, <3>4
      <4>2. /\ u \in filter <=> u \in work
            /\ Signal(u) = Signal(w) => /\ ptr[u]["mm"] = ptr[w]["mm"] /\ ptr[u]["sighand"] = ptr[w]["sighand"]
                                        /\ u \in filter <=> w \in filter
        BY <4>1 DEF Inv, ThreadsAgree
      <4> QED BY <1>3, <1>4, <3>4, <4>2
    <3> QED BY <3>1, <3>2, <3>3, <3>4
  <2> QED BY <2>3 DEF ThreadsAgree
<1> QED BY <1>7, <1>8, <1>9, <1>10, <1>11, <1>12, <1>13, <1>14 DEF Inv

LEMMA publishKeeps ==
  ASSUME Inv, NEW t \in Tasks, publish(t), UNCHANGED scenario
  PROVE  Inv'
<1>1. PICK c \in Tasks : c = Child(t) /\ c # t /\ st[t] = "live" /\ st[c] = "new" /\ c \notin Published
                         /\ fork[t].at = "publish"
  BY Kid DEF ChildSteps, publish, At
<1>2. /\ copy_seccomp(t, c)
      /\ st' = [st EXCEPT ![c] = "live"] /\ own' = [own EXCEPT ![c] = @ \ {"cgroup", "pidfd"}]
      /\ fork' = [fork EXCEPT ![t] = NoFork]
      /\ real_parent' = [real_parent EXCEPT ![c] = real_parent_of(t)]
      /\ nr_threads' = nr_threads + 1
      /\ UNCHANGED <<scenario, ptr, nproc, killed, sent, pid_adding, rcu_users, refs>>
  BY <1>1 DEF publish, lifeVars
<1>3. /\ group_threads \in [Tasks -> Int] /\ holds \in [Tasks -> SUBSET Kinds]
      /\ leader \in [Tasks -> Tasks \cup {None}]
      /\ seen \in [Tasks -> SUBSET Signals] /\ pending \subseteq Tasks
      /\ Signal(c) \in Tasks /\ Signal(t) \in Tasks /\ t \in Published
  BY <1>1 DEF Inv, Fields, Stages, Stage, Signal, Kinds, Published
<1>4. CASE "THREAD" \in fork[t].flags
  <2>1. publish_thread(t)
    BY <1>4 DEF publish, Flag
  <2>2. /\ Counted' /\ count' \in [Kinds -> [Tasks -> Int]] /\ UNCHANGED <<seen, pending>>
        /\ holds' = [holds EXCEPT ![c] = Kinds] /\ leader' = [leader EXCEPT ![c] = leader[t]]
        /\ Signal(c) = Signal(t)
        /\ group_threads' = [group_threads EXCEPT ![Signal(t)] = group_threads[Signal(t)] + 1]
    BY <1>1, <1>2, <1>4, <2>1, publish_threadFacts
  <2>3. Appears(t, c)
    BY <1>1, <1>2, <2>2 DEF Appears
  <2>4. PICK l \in Tasks : l = leader[t] /\ l \in Published /\ Signal(l) = Signal(c) /\ leader[l] = l
    BY <1>3, <2>2 DEF Inv, Family, Published
  <2>5. /\ group_threads' \in [Tasks -> Int]
        /\ \A s \in Tasks : s # Signal(c) => group_threads'[s] = group_threads[s]
        /\ group_threads'[Signal(c)] = group_threads[Signal(c)] + 1
    BY <1>3, <2>2
  <2>6. Threads(Signal(c)) # {}
    BY <1>3, <2>2 DEF Threads
  <2>7. /\ seen' \in [Tasks -> SUBSET Signals] /\ pending' \subseteq Tasks
        /\ \A u \in Tasks : st[u] = "live" => seen'[Signal(u)] = sent
        /\ seen'[Signal(c)] = sent
    BY <1>1, <1>3, <2>2 DEF Inv, SignalsReachAll
  <2>8. ptr[c]["mm"] = ptr[t]["mm"] /\ ptr[c]["sighand"] = ptr[t]["sighand"]
    BY <1>1, <1>4, Complete
  <2>9. Joins(t, c, l)
    BY <1>3, <2>2, <2>4, <2>5, <2>6, <2>7, <2>8 DEF Joins
  <2> QED BY <2>3, <2>4, <2>9, AppearsKeeps
<1>5. CASE "THREAD" \notin fork[t].flags
  <2>1. publish_process(t)
    BY <1>5 DEF publish, Flag
  <2>2. /\ Counted' /\ UNCHANGED <<count, holds>> /\ holds[c] = Kinds
        /\ seen' \in [Tasks -> SUBSET Signals] /\ pending' \subseteq Tasks
        /\ leader' = [leader EXCEPT ![c] = c] /\ group_threads' = [group_threads EXCEPT ![Signal(c)] = 1]
        /\ seen'[Signal(c)] = sent /\ \A u \in Tasks : u # c /\ st[u] = "live" => seen'[Signal(u)] = sent
    BY <1>1, <1>2, <1>5, <2>1, publish_processFacts
  <2>3. holds' = [holds EXCEPT ![c] = Kinds] /\ count' \in [Kinds -> [Tasks -> Int]]
    BY <1>3, <2>2 DEF Inv, Fields
  <2>4. Appears(t, c)
    BY <1>1, <1>2, <2>3 DEF Appears
  <2>5. \A u \in Tasks : u # c => Signal(u) # Signal(c)
    BY <1>1, <1>5, Complete DEF Signal
  <2>6. Threads(Signal(c)) = {}
    BY <1>1, <2>5 DEF Threads, Published
  <2>7. /\ group_threads' \in [Tasks -> Int]
        /\ \A s \in Tasks : s # Signal(c) => group_threads'[s] = group_threads[s]
        /\ group_threads'[Signal(c)] = 1
    BY <1>3, <2>2
  <2>8. Joins(t, c, c)
    BY <2>2, <2>3, <2>5, <2>6, <2>7 DEF Joins
  <2> QED BY <2>4, <2>8, AppearsKeeps
<1> QED BY <1>4, <1>5

-----------------------------------------------------------------------------
(* What the other tasks do meanwhile.                                      *)

\* What only touches signals, filters, the namespace and references, leaves the counts and forks alone.
Still ==
    UNCHANGED <<scenario, st, own, ptr, holds, count, nproc, nr_threads, group_threads,
                real_parent, leader,
                rcu_users>>

LEMMA StillKeeps ==
  ASSUME Inv, Still
  PROVE  /\ Published' = Published /\ \A x \in Tasks : Signal(x)' = Signal(x) /\ Threads(x)' = Threads(x)
         /\ Counted' /\ Numbers' /\ Family'
<1> USE DEF Still
<1>1. Published' = Published /\ \A x \in Tasks : Signal(x)' = Signal(x) /\ Threads(x)' = Threads(x)
  BY DEF Published, Signal, Threads
<1>2. Counted' /\ Numbers'
  BY <1>1 DEF Inv, Counted, Holders, Numbers, Procs
<1>3. Family'
  BY <1>1 DEF Inv, Family, Signal
<1> QED BY <1>1, <1>2, <1>3

\* Nothing but what is pending, killed, referred to or allowed in the namespace.
LEMMA SignsKeep ==
  ASSUME Inv, Still, UNCHANGED <<fork, sent, seen, filter, work>>, pending' \subseteq Tasks,
                                 killed' \subseteq Tasks,
         \A s \in killed' : s \in killed \/ \E t \in Tasks : st[t] \in {"live", "zombie"} /\ Signal(t) = s,
         refs' \subseteq Tasks, pid_adding' \in BOOLEAN,
         \A t \in refs' : t \in refs \/ st[t] \notin {"free", "new"}
  PROVE  Inv'
<1> USE DEF Still
<1>1. Published' = Published /\ Counted' /\ Numbers' /\ Family' /\ \A x \in Tasks : Signal(x)' = Signal(x)
  BY StillKeeps
<1>2. Fields'
  BY DEF Inv, Fields
<1>3. Stages'
  BY <1>1 DEF Inv, Stages, Stage
<1>4. Forks'
  <2>1. ASSUME NEW u \in Tasks PROVE Forking(u)'
    BY DEF Inv, Forks, Forking, ChildHas
  <2> QED BY <2>1 DEF Inv, Forks
<1>5. KilledInUse'
  BY <1>1 DEF Inv, KilledInUse, Signal
<1>6. SignalsReachAll' /\ ThreadsAgree'
  BY <1>1 DEF Inv, SignalsReachAll, ThreadsAgree, Signal
<1> QED BY <1>1, <1>2, <1>3, <1>4, <1>5, <1>6 DEF Inv

LEMMA get_signalKeeps ==
  ASSUME Inv, NEW t \in Tasks, get_signal(t), UNCHANGED scenario
  PROVE  Inv'
<1>1. Still /\ UNCHANGED <<fork, sent, seen, filter, work, killed, refs,
                           pid_adding>> /\ pending' \subseteq pending
  BY DEF get_signal, Still, copyVars, treeVars, secVars, lifeVars
<1>2. pending \subseteq Tasks /\ killed \subseteq Tasks /\ refs \subseteq Tasks /\ pid_adding \in BOOLEAN
  BY DEF Inv, Fields
<1> QED BY <1>1, <1>2, SignsKeep

LEMMA complete_signalKeeps ==
  ASSUME Inv, NEW t \in Tasks, complete_signal(t), UNCHANGED scenario
  PROVE  Inv'
<1>1. Still /\ UNCHANGED <<fork, sent, seen, filter, work, pending, refs,
                           pid_adding>> /\ killed' = killed \cup {t}
  BY DEF complete_signal, Still, copyVars, treeVars, secVars, lifeVars
<1>2. pending \subseteq Tasks /\ killed \subseteq Tasks /\ refs \subseteq Tasks /\ pid_adding \in BOOLEAN
  BY DEF Inv, Fields
<1>3. \E u \in Tasks : st[u] \in {"live", "zombie"} /\ Signal(u) = t
  BY DEF complete_signal, Threads, Published
<1> QED BY <1>1, <1>2, <1>3, SignsKeep

LEMMA disable_pid_allocationKeeps ==
  ASSUME Inv, disable_pid_allocation, UNCHANGED scenario
  PROVE  Inv'
<1>1. Still /\ UNCHANGED <<fork, sent, seen, filter, work, pending, refs,
                           killed>> /\ pid_adding' = FALSE
  BY DEF disable_pid_allocation, Still, copyVars, sigVars, secVars, lifeVars
<1>2. pending \subseteq Tasks /\ killed \subseteq Tasks /\ refs \subseteq Tasks
  BY DEF Inv, Fields
<1> QED BY <1>1, <1>2, SignsKeep

LEMMA get_task_structKeeps ==
  ASSUME Inv, NEW t \in Tasks, get_task_struct(t), UNCHANGED scenario
  PROVE  Inv'
<1>1. Still /\ UNCHANGED <<fork, sent, seen, filter, work, pending, killed,
                           pid_adding>> /\ refs' = refs \cup {t}
  BY DEF get_task_struct, Still, copyVars, sigVars, treeVars, secVars
<1>2. pending \subseteq Tasks /\ killed \subseteq Tasks /\ refs \subseteq Tasks /\ pid_adding \in BOOLEAN
  BY DEF Inv, Fields
<1>3. st[t] \notin {"free", "new"}
  BY DEF get_task_struct, Inv, Stages, Stage
<1> QED BY <1>1, <1>2, <1>3, SignsKeep

LEMMA put_task_structKeeps ==
  ASSUME Inv, NEW t \in Tasks, put_task_struct(t), UNCHANGED scenario
  PROVE  Inv'
<1>1. Still /\ UNCHANGED <<fork, sent, seen, filter, work, pending, killed,
                           pid_adding>> /\ refs' \subseteq refs
  BY DEF put_task_struct, Still, copyVars, sigVars, treeVars, secVars
<1>2. pending \subseteq Tasks /\ killed \subseteq Tasks /\ refs \subseteq Tasks /\ pid_adding \in BOOLEAN
  BY DEF Inv, Fields
<1> QED BY <1>1, <1>2, SignsKeep

LEMMA kill_pgrpKeeps ==
  ASSUME Inv, NEW sig \in Signals, kill_pgrp(sig), UNCHANGED scenario
  PROVE  Inv'
<1>1. /\ Still /\ UNCHANGED <<killed, filter, work, refs, pid_adding>>
      /\ sent' = sent \cup {sig} /\ pending' = pending \cup {Signal(t) : t \in Published}
      /\ seen' = [s \in Tasks |-> IF s \in {Signal(t) : t \in Published} THEN seen[s] \cup {sig} ELSE seen[s]]
      /\ fork' = [t \in Tasks |-> IF fork[t].at # "none" /\ "THREAD" \notin fork[t].flags
                                  THEN [fork[t] EXCEPT !.delayed = @ \cup {sig}] ELSE fork[t]]
  BY DEF kill_pgrp, Still, copyVars, treeVars, secVars, lifeVars
<1>2. Published' = Published /\ Counted' /\ Numbers' /\ Family' /\ \A x \in Tasks : Signal(x)' = Signal(x)
  BY <1>1, StillKeeps
<1>3. \A t \in Published : Signal(t) \in Tasks
  BY DEF Published, Inv, Stages, Stage, Signal, Kinds
<1>4. ASSUME NEW t \in Tasks
      PROVE  /\ fork'[t] \in ForkStates /\ fork'[t].at = fork[t].at /\ fork'[t].child = fork[t].child
             /\ fork'[t].flags = fork[t].flags /\ fork'[t].base = fork[t].base
             /\ fork[t].at = "none" => fork'[t] = fork[t]
             /\ fork[t].at # "none" /\ "THREAD" \notin fork[t].flags
                  => fork'[t].delayed = fork[t].delayed \cup {sig}
  <2>1. fork[t] \in ForkStates
    BY DEF Inv, Fields
  <2>2. CASE fork[t].at # "none" /\ "THREAD" \notin fork[t].flags
    <3>1. PICK r : r = [fork[t] EXCEPT !.delayed = fork[t].delayed \cup {sig}]
      OBVIOUS
    <3>2. fork'[t] = r
      BY <1>1, <2>2, <3>1
    <3> QED BY <2>1, <2>2, <3>1, <3>2 DEF ForkStates
  <2>3. CASE ~(fork[t].at # "none" /\ "THREAD" \notin fork[t].flags)
    BY <1>1, <2>1, <2>3
  <2> QED BY <2>2, <2>3
<1>5. Fields'
  <2>1. fork' \in [Tasks -> ForkStates]
    BY <1>1, <1>4
  <2>2. seen' \in [Tasks -> SUBSET Signals]
    BY <1>1 DEF Inv, Fields
  <2>3. sent' \subseteq Signals /\ pending' \subseteq Tasks
    BY <1>1, <1>3 DEF Inv, Fields
  <2> QED BY <1>1, <2>1, <2>2, <2>3 DEF Inv, Fields, Still
<1>6. Stages'
  BY <1>1, <1>2 DEF Inv, Stages, Stage, Still
<1>7. Forks'
  <2>1. ASSUME NEW u \in Tasks PROVE Forking(u)'
    <3>1. Forking(u) /\ UNCHANGED <<st, own, holds, ptr, work>>
      BY <1>1 DEF Inv, Forks, Still
    <3>2. ASSUME fork[u].at # "none", "THREAD" \notin fork[u].flags
          PROVE  fork'[u].base \cup fork'[u].delayed = sent'
      BY <1>1, <1>4, <3>1, <3>2 DEF Forking
    <3>3. ASSUME fork[u].at \in ChildSteps
          PROVE  ChildHas(u, fork[u].child, fork[u].at, fork[u].flags)'
      BY <1>4, <3>1, <3>3 DEF Forking, ChildHas
    <3> QED BY <1>4, <3>1, <3>2, <3>3 DEF Forking
  <2> QED BY <1>1, <1>4, <2>1 DEF Inv, Forks, Still
<1>8. KilledInUse' /\ ThreadsAgree'
  BY <1>1, <1>2 DEF Inv, KilledInUse, ThreadsAgree, Still, Signal
<1>9. SignalsReachAll'
  <2>1. ASSUME NEW u \in Tasks, st'[u] = "live" PROVE seen'[Signal(u)] = sent'
    <3>1. u \in Published /\ seen[Signal(u)] = sent
      BY <1>1, <2>1 DEF Still, Published, Inv, SignalsReachAll
    <3> QED BY <1>1, <1>3, <3>1
  <2> QED BY <1>2, <2>1 DEF SignalsReachAll
<1> QED BY <1>2, <1>5, <1>6, <1>7, <1>8, <1>9 DEF Inv

LEMMA seccomp_sync_threadsKeeps ==
  ASSUME Inv, NEW t \in Tasks, seccomp_sync_threads(t), UNCHANGED scenario
  PROVE  Inv'
<1>1. PICK group : group = {u \in Threads(Signal(t)) : st[u] = "live"}
  OBVIOUS
<1>2. /\ Still /\ UNCHANGED <<fork, killed, pending, sent, seen, refs, pid_adding>>
      /\ filter' = filter \cup group /\ work' = work \cup group /\ st[t] = "live"
      /\ \A u \in Tasks : u \in group <=> st[u] = "live" /\ Signal(u) = Signal(t)
      /\ group \subseteq Tasks
  BY <1>1
     DEF seccomp_sync_threads, Still, copyVars, sigVars, treeVars, lifeVars, Threads, Published
<1>3. Published' = Published /\ Counted' /\ Numbers' /\ Family' /\ \A x \in Tasks : Signal(x)' = Signal(x)
  BY <1>2, StillKeeps
<1>4. Fields'
  BY <1>2 DEF Inv, Fields, Still
<1>5. Stages'
  BY <1>2, <1>3 DEF Inv, Stages, Stage, Still, Published
<1>6. Forks'
  <2>1. ASSUME NEW u \in Tasks PROVE Forking(u)'
    BY <1>2 DEF Inv, Forks, Forking, ChildHas, Still
  <2> QED BY <1>2, <2>1 DEF Inv, Forks, Still
<1>7. KilledInUse' /\ SignalsReachAll'
  BY <1>2, <1>3 DEF Inv, KilledInUse, SignalsReachAll, Still, Signal
<1>8. ThreadsAgree'
  <2>1. ASSUME NEW u \in Tasks, st[u] = "live"
        PROVE  /\ u \in filter' <=> u \in filter \/ Signal(u) = Signal(t)
               /\ u \in work' <=> u \in work \/ Signal(u) = Signal(t)
    BY <1>2, <2>1
  <2> QED BY <1>2, <1>3, <2>1 DEF Inv, ThreadsAgree, Still
<1> QED BY <1>3, <1>4, <1>5, <1>6, <1>7, <1>8 DEF Inv

-----------------------------------------------------------------------------
(* The end of a task.                                                      *)

\* A task that is no child and does not fork changes nothing for the forks.
LEMMA ForksStay ==
  ASSUME Inv, NEW c \in Tasks, OwnBusiness(c), fork' = fork, fork[c].at = "none", st[c] # "new", st'[c] # "new"
  PROVE  Forks'
<1>1. ASSUME NEW u \in Tasks PROVE Forking(u)'
  <2>1. CASE u = c
    <3>1. fork'[u] = NoFork
      BY <2>1 DEF Inv, Forks, Forking
    <3> QED BY <3>1, NoForkIs DEF Forking
  <2>2. CASE u # c
    <3>1. fork[u].child # c
      BY RootAssumption DEF Inv, Forks, Forking
    <3> QED BY <2>2, <3>1, OthersFork
  <2> QED BY <2>1, <2>2
<1> QED BY <1>1 DEF Inv, Forks, OwnBusiness

\* Only a live task forks.
LEMMA NoForks ==
  ASSUME Inv, NEW t \in Tasks, st[t] # "live"
  PROVE  fork[t].at = "none"
BY DEF Inv, Forks, Forking

LEMMA do_exitKeeps ==
  ASSUME Inv, NEW t \in Tasks, do_exit(t), UNCHANGED scenario
  PROVE  Inv'
<1> DEFINE gone == {"files", "fs", "mm"}
<1>1. /\ t # Root /\ st[t] = "live" /\ fork[t].at = "none" /\ Stage(t) /\ Fields /\ t \in Published
      /\ \A k \in Kinds : ptr[t][k] \in Tasks
  BY NoForkIs DEF do_exit, Inv, Stages, Stage, Published
<1>2. /\ st' = [st EXCEPT ![t] = "zombie"]
      /\ own' = [own EXCEPT ![t] = @ \cap {"task", "stack", "creds", "security", "pid"}]
      /\ real_parent' = [u \in Tasks |-> IF real_parent[u] = t THEN Root ELSE real_parent[u]]
      /\ UNCHANGED <<scenario, fork, ptr, nproc, killed, pending, sent, seen, nr_threads,
                     group_threads, leader,
                     pid_adding, filter, work, rcu_users, refs>>
  BY DEF do_exit, sigVars, secVars, lifeVars
<1>3. /\ st'[t] = "zombie" /\ own'[t] = own[t] \cap {"task", "stack", "creds", "security", "pid"}
      /\ \A u \in Tasks : u # t => st'[u] = st[u] /\ own'[u] = own[u]
  BY <1>1, <1>2 DEF Fields
<1>4. /\ Counted' /\ count' \in [Kinds -> [Tasks -> Int]] /\ holds' \in [Tasks -> SUBSET Kinds]
      /\ holds'[t] = {"sighand", "signal"} /\ \A u \in Tasks : u # t => holds'[u] = holds[u]
  <2>1. holds[t] = Kinds
    BY <1>1 DEF Stage
  <2>2. Drop(t, gone)
    BY <1>2, <2>1 DEF Drop, do_exit, Kinds
  <2>3. /\ Counted' /\ count' \in [Kinds -> [Tasks -> Int]] /\ holds' \in [Tasks -> SUBSET Kinds]
        /\ holds'[t] = holds[t] \ gone /\ \A u \in Tasks : u # t => holds'[u] = holds[u]
    BY <1>1, <2>2, Drops
  <2> QED BY <2>1, <2>3 DEF Kinds
<1>5. Published' = Published /\ \A x \in Tasks : Signal(x)' = Signal(x) /\ Threads(x)' = Threads(x)
  <2>1. Published' = Published
    BY <1>1, <1>3 DEF Published
  <2> QED BY <1>2, <2>1 DEF Threads, Signal
<1>6. Fields'
  <2>1. own' \in [Tasks -> SUBSET Things] /\ st' \in [Tasks -> States]
    BY <1>1, <1>2 DEF Fields, States
  <2>2. real_parent' \in [Tasks -> Tasks \cup {None}]
    BY <1>1, <1>2, RootAssumption DEF Fields
  <2> QED BY <1>1, <1>2, <1>4, <2>1, <2>2 DEF Fields
<1>7. \A u \in Tasks : real_parent'[u] = IF real_parent[u] = t THEN Root ELSE real_parent[u]
  BY <1>2
<1>8. Stages'
  <2>1. ASSUME NEW u \in Tasks, u # t PROVE Stage(u)'
    <3>1. u \notin Published => real_parent'[u] = None
      BY <1>7, RootAssumption DEF Inv, Stages, Stage
    <3> QED BY <2>1, <3>1, <1>2, <1>3, <1>4, <1>5 DEF Inv, Stages, Stage
  <2>2. Stage(t)'
    <3>1. {"task", "creds", "pid"} \subseteq own'[t]
          /\ own'[t] \subseteq {"task", "stack", "creds", "security", "pid"}
          /\ "stack" \in own'[t]
      BY <1>1, <1>3 DEF Stage
    <3>2. rcu_users'[t] = 1 + One("stack" \in own'[t])
      BY <1>1, <1>2, <3>1 DEF Stage, One
    <3> QED BY <1>1, <1>2, <1>3, <1>4, <1>5, <3>1, <3>2 DEF Stage
  <2>3. st'[Root] = "live"
    BY <1>1, <1>3, RootAssumption DEF Inv, Stages
  <2> QED BY <2>1, <2>2, <2>3 DEF Stages
<1>9. Forks'
  <2>1. OwnBusiness(t)
    BY <1>2, <1>3, <1>4 DEF OwnBusiness
  <2> QED BY <1>1, <1>2, <1>3, <2>1, ForksStay
<1>10. Numbers'
  <2>1. Procs' = Procs
    BY <1>1, <1>3 DEF Procs, Stage
  <2> QED BY <1>2, <1>5, <2>1 DEF Inv, Numbers
<1>11. Family'
  <2>1. \A u \in Tasks : real_parent'[u] # None => st'[real_parent'[u]] = "live"
    <3>1. ASSUME NEW u \in Tasks, real_parent'[u] # None PROVE st'[real_parent'[u]] = "live"
      <4>1. CASE real_parent[u] = t
        BY <1>1, <1>3, <1>7, <4>1, RootAssumption DEF Inv, Stages
      <4>2. CASE real_parent[u] # t
        <5>1. real_parent'[u] = real_parent[u] /\ real_parent[u] \in Tasks /\ st[real_parent[u]] = "live"
          BY <1>1, <1>7, <3>1, <4>2 DEF Inv, Family, Fields
        <5> QED BY <1>3, <4>2, <5>1
      <4> QED BY <4>1, <4>2
    <3> QED BY <3>1
  <2> QED BY <1>2, <1>5, <2>1 DEF Inv, Family, Signal
<1>12. KilledInUse'
  BY <1>1, <1>2, <1>3, <1>5 DEF Inv, KilledInUse, Signal
<1>13. SignalsReachAll' /\ ThreadsAgree'
  <2>1. \A u \in Tasks : st'[u] = "live" => st[u] = "live"
    BY <1>1, <1>3
  <2> QED BY <1>2, <2>1 DEF Inv, SignalsReachAll, ThreadsAgree, Signal
<1> QED BY <1>4, <1>6, <1>8, <1>9, <1>10, <1>11, <1>12, <1>13 DEF Inv

\* The leader of other threads is not reaped.
LEMMA LeadsOthers ==
  ASSUME Inv, NEW t \in Tasks, st[t] = "zombie", leader[t] = t => group_threads[Signal(t)] = 1,
         NEW u \in Published, u # t
  PROVE  leader[u] # t
<1> SUFFICES ASSUME leader[u] = t PROVE FALSE
  OBVIOUS
<1>1. u \in Tasks /\ Signal(t) = Signal(u) /\ leader[t] = t
  BY DEF Inv, Family, Published
<1>2. PICK T : T = Threads(Signal(t))
  OBVIOUS
<1>3. t \in T /\ u \in T /\ IsFiniteSet(T) /\ Signal(t) \in Tasks
  BY <1>1, <1>2, FiniteParts DEF Threads, Published, Inv, Stages, Stage, Signal, Kinds
<1>4. Cardinality(T) = 1
  BY <1>1, <1>2, <1>3 DEF Inv, Numbers
<1>5. Cardinality(T \ {t}) = 0 /\ IsFiniteSet(T \ {t})
  BY <1>3, <1>4, FS_RemoveElement
<1>6. T \ {t} = {}
  BY <1>5, FS_EmptySet
<1> QED BY <1>3, <1>6

LEMMA release_taskKeeps ==
  ASSUME Inv, NEW t \in Tasks, release_task(t), UNCHANGED scenario
  PROVE  Inv'
<1>1. /\ st[t] = "zombie" /\ fork[t].at = "none" /\ Stage(t) /\ Fields /\ t \in Published /\ t # Root
      /\ \A k \in Kinds : ptr[t][k] \in Tasks
  BY NoForks DEF release_task, Inv, Stages, Stage, Published
<1>2. /\ st' = [st EXCEPT ![t] = "reaped"] /\ own' = [own EXCEPT ![t] = @ \ {"pid"}]
      /\ nproc' = nproc - 1 /\ nr_threads' = nr_threads - 1
      /\ group_threads' = [group_threads EXCEPT ![Signal(t)] = @ - 1]
      /\ real_parent' = [real_parent EXCEPT ![t] = None] /\ leader' = [leader EXCEPT ![t] = None]
      /\ filter' = filter \ {t} /\ rcu_users' = [rcu_users EXCEPT ![t] = @ - 1]
      /\ UNCHANGED <<scenario, fork, ptr, killed, pending, sent, seen, pid_adding, work, refs>>
  BY DEF release_task, sigVars
<1>3. /\ st'[t] = "reaped" /\ own'[t] = own[t] \ {"pid"} /\ rcu_users'[t] = rcu_users[t] - 1
      /\ leader'[t] = None /\ real_parent'[t] = None
      /\ \A u \in Tasks : u # t => /\ st'[u] = st[u] /\ own'[u] = own[u] /\ rcu_users'[u] = rcu_users[u]
                                   /\ leader'[u] = leader[u] /\ real_parent'[u] = real_parent[u]
  BY <1>1, <1>2 DEF Fields
<1>4. /\ Counted' /\ count' \in [Kinds -> [Tasks -> Int]] /\ holds' \in [Tasks -> SUBSET Kinds]
      /\ holds'[t] = {"signal"} /\ \A u \in Tasks : u # t => holds'[u] = holds[u]
  <2>1. holds[t] = {"sighand", "signal"}
    BY <1>1 DEF Stage
  <2>2. count' = [k \in Kinds |-> IF k \in {"sighand"} THEN [count[k] EXCEPT ![ptr[t][k]] = @ - 1] ELSE count[k]]
    BY <1>1 DEF release_task, Fields
  <2>3. Drop(t, {"sighand"})
    BY <1>2, <2>1, <2>2 DEF Drop, release_task
  <2>4. /\ Counted' /\ count' \in [Kinds -> [Tasks -> Int]] /\ holds' \in [Tasks -> SUBSET Kinds]
        /\ holds'[t] = holds[t] \ {"sighand"} /\ \A u \in Tasks : u # t => holds'[u] = holds[u]
    BY <1>1, <2>3, Drops
  <2> QED BY <2>1, <2>4
<1>5. /\ Published' = Published \ {t} /\ Signal(t) \in Tasks /\ t \in Threads(Signal(t))
      /\ \A x \in Tasks : Signal(x)' = Signal(x)
      /\ \A x \in Tasks : Threads(x)' = IF x = Signal(t) THEN Threads(x) \ {t} ELSE Threads(x)
  <2>1. Published' = Published \ {t}
    BY <1>1, <1>3 DEF Published
  <2>2. Signal(t) \in Tasks /\ t \in Threads(Signal(t))
    BY <1>1 DEF Signal, Kinds, Threads
  <2>3. ASSUME NEW x \in Tasks PROVE Threads(x)' = {u \in Published \ {t} : Signal(u) = x}
    BY <1>2, <2>1 DEF Threads, Signal
  <2>4. \A x \in Tasks : Signal(x)' = Signal(x)
    BY <1>2 DEF Signal
  <2> QED BY <2>1, <2>2, <2>3, <2>4 DEF Threads
<1>6. Fields'
  <2>1. own' \in [Tasks -> SUBSET Things] /\ st' \in [Tasks -> States] /\ filter' \subseteq Tasks
    BY <1>1, <1>2 DEF Fields, States
  <2>2. real_parent' \in [Tasks -> Tasks \cup {None}] /\ leader' \in [Tasks -> Tasks \cup {None}]
    BY <1>1, <1>2 DEF Fields
  <2>3. group_threads' \in [Tasks -> Int] /\ rcu_users' \in [Tasks -> Int]
    <3>1. group_threads[Signal(t)] - 1 \in Int /\ rcu_users[t] - 1 \in Int
      BY <1>1, <1>5 DEF Fields
    <3>2. /\ group_threads' = [group_threads EXCEPT ![Signal(t)] = group_threads[Signal(t)] - 1]
          /\ rcu_users' = [rcu_users EXCEPT ![t] = rcu_users[t] - 1]
      BY <1>2
    <3>3. group_threads \in [Tasks -> Int] /\ rcu_users \in [Tasks -> Int]
      BY <1>1 DEF Fields
    <3> QED BY <3>1, <3>2, <3>3
  <2> QED BY <1>1, <1>2, <1>4, <2>1, <2>2, <2>3 DEF Fields
<1>7. Stages'
  <2>1. ASSUME NEW u \in Tasks, u # t PROVE Stage(u)'
    BY <2>1, <1>2, <1>3, <1>4, <1>5 DEF Inv, Stages, Stage
  <2>2. Stage(t)'
    <3>1. {"task", "creds"} \subseteq own'[t] /\ own'[t] \subseteq {"task", "stack", "creds", "security"}
          /\ ("stack" \in own'[t] <=> "stack" \in own[t])
      BY <1>1, <1>3 DEF Stage
    <3>2. rcu_users'[t] = One("stack" \in own'[t])
      BY <1>1, <1>3, <3>1 DEF Stage, One
    <3> QED BY <1>1, <1>2, <1>3, <1>4, <1>5, <3>1, <3>2 DEF Stage
  <2>3. st'[Root] = "live"
    BY <1>1, <1>3, RootAssumption DEF Inv, Stages
  <2> QED BY <2>1, <2>2, <2>3 DEF Stages
<1>8. Forks'
  <2>1. OwnBusiness(t)
    BY <1>2, <1>3, <1>4 DEF OwnBusiness
  <2> QED BY <1>1, <1>2, <1>3, <2>1, ForksStay
<1>9. Numbers'
  <2>1. t \in Procs /\ t \notin Procs'
    BY <1>1, <1>3 DEF Procs, Stage
  <2>2. ProcMoves(t)
    BY <1>2, <1>3, <2>1, Integral DEF ProcMoves, Has
  <2>3. nproc' = Cardinality(Procs')
    BY <2>2, ProcsKeep
  <2>4. nr_threads' = Cardinality(Published')
    <3>1. IsFiniteSet(Published)
      BY FiniteParts DEF Published
    <3> QED BY <1>1, <1>2, <1>5, <3>1, FS_RemoveElement DEF Inv, Numbers
  <2>5. ASSUME NEW s \in Tasks, Threads(s)' # {} PROVE group_threads'[s] = Cardinality(Threads(s)')
    <3>1. CASE s # Signal(t)
      BY <1>1, <1>2, <1>5, <2>5, <3>1 DEF Inv, Numbers, Fields
    <3>2. CASE s = Signal(t)
      <4>1. IsFiniteSet(Threads(s)) /\ t \in Threads(s)
        BY <1>5, <3>2, FiniteParts DEF Threads, Published
      <4>2. group_threads'[s] = group_threads[s] - 1 /\ group_threads[s] = Cardinality(Threads(s))
        BY <1>1, <1>2, <3>2, <4>1 DEF Inv, Numbers, Fields
      <4>3. Cardinality(Threads(s) \ {t}) = Cardinality(Threads(s)) - 1 /\ Threads(s)' = Threads(s) \ {t}
        BY <1>5, <3>2, <4>1, FS_RemoveElement
      <4> QED BY <4>2, <4>3
    <3> QED BY <3>1, <3>2
  <2> QED BY <2>3, <2>4, <2>5 DEF Numbers
<1>10. Family'
  <2>1. ASSUME NEW u \in Tasks, u \in Published'
        PROVE  leader'[u] \in Published' /\ ptr'[leader'[u]]["signal"] = ptr'[u]["signal"]
               /\ leader'[leader'[u]] = leader'[u]
    <3>1. u \in Published /\ u # t /\ leader[u] # t
      BY <1>1, <1>5, <2>1, LeadsOthers DEF release_task
    <3>2. leader[u] \in Published /\ leader[u] \in Tasks /\ ptr[leader[u]]["signal"] = ptr[u]["signal"]
          /\ leader[leader[u]] = leader[u]
      BY <3>1 DEF Inv, Family, Published, Signal
    <3> QED BY <1>2, <1>3, <1>5, <3>1, <3>2
  <2>2. ASSUME NEW u \in Tasks, real_parent'[u] # None PROVE st'[real_parent'[u]] = "live"
    <3>1. real_parent'[u] = real_parent[u]
      BY <1>3, <2>2
    <3>2. real_parent[u] \in Tasks /\ st[real_parent[u]] = "live"
      BY <1>1, <2>2, <3>1 DEF Inv, Family, Fields
    <3> QED BY <1>1, <1>3, <3>1, <3>2
  <2> QED BY <2>1, <2>2 DEF Family, Published, Signal
<1>11. KilledInUse'
  BY <1>1, <1>2, <1>3, <1>5 DEF Inv, KilledInUse, Signal
<1>12. SignalsReachAll' /\ ThreadsAgree'
  <2>1. \A u \in Tasks : st'[u] = "live" => st[u] = "live" /\ (u \in filter' <=> u \in filter)
    BY <1>1, <1>2, <1>3
  <2> QED BY <1>2, <2>1 DEF Inv, SignalsReachAll, ThreadsAgree, Signal
<1> QED BY <1>4, <1>6, <1>7, <1>8, <1>9, <1>10, <1>11, <1>12 DEF Inv

LEMMA finish_task_switchKeeps ==
  ASSUME Inv, NEW t \in Tasks, finish_task_switch(t), UNCHANGED scenario
  PROVE  Inv'
<1>1. /\ st[t] \in {"zombie", "reaped"} /\ "stack" \in own[t] /\ fork[t].at = "none" /\ Stage(t) /\ Fields
      /\ t # Root
  BY NoForks DEF finish_task_switch, Inv, Stages
<1>2. /\ own' = [own EXCEPT ![t] = @ \ {"stack"}] /\ rcu_users' = [rcu_users EXCEPT ![t] = @ - 1]
      /\ UNCHANGED <<scenario, st, fork, ptr, holds, count, nproc, killed, pending, sent, seen,
                     nr_threads,
                     group_threads, real_parent, leader, pid_adding, filter, work, refs>>
  BY DEF finish_task_switch, sigVars, treeVars, secVars
<1>3. /\ own'[t] = own[t] \ {"stack"} /\ rcu_users'[t] = rcu_users[t] - 1
      /\ \A u \in Tasks : u # t => own'[u] = own[u] /\ rcu_users'[u] = rcu_users[u]
  BY <1>1, <1>2 DEF Fields
<1>4. Published' = Published /\ \A x \in Tasks : Signal(x)' = Signal(x) /\ Threads(x)' = Threads(x)
  BY <1>2 DEF Published, Threads, Signal
<1>5. Fields'
  <2>1. rcu_users[t] - 1 \in Int /\ rcu_users' = [rcu_users EXCEPT ![t] = rcu_users[t] - 1]
    BY <1>1, <1>2 DEF Fields
  <2> QED BY <1>1, <1>2, <2>1 DEF Fields
<1>6. Stages'
  <2>1. ASSUME NEW u \in Tasks, u # t PROVE Stage(u)'
    BY <2>1, <1>2, <1>3, <1>4 DEF Inv, Stages, Stage
  <2>2. Stage(t)'
    <3>1. CASE st[t] = "zombie"
      BY <1>1, <1>2, <1>3, <1>4, <3>1 DEF Stage, One
    <3>2. CASE st[t] = "reaped"
      BY <1>1, <1>2, <1>3, <1>4, <3>2 DEF Stage, One
    <3> QED BY <1>1, <3>1, <3>2
  <2> QED BY <1>2, <2>1, <2>2 DEF Inv, Stages
<1>7. Forks'
  <2>1. OwnBusiness(t)
    BY <1>2, <1>3 DEF OwnBusiness
  <2> QED BY <1>1, <1>2, <2>1, ForksStay
<1>8. Counted' /\ Numbers'
  <2>1. Procs' = Procs
    BY <1>2, <1>3 DEF Procs
  <2> QED BY <1>2, <1>4, <2>1 DEF Inv, Counted, Holders, Numbers
<1>9. Family' /\ KilledInUse' /\ SignalsReachAll' /\ ThreadsAgree'
  BY <1>2, <1>4 DEF Inv, Family, KilledInUse, SignalsReachAll, ThreadsAgree, Signal
<1> QED BY <1>5, <1>6, <1>7, <1>8, <1>9 DEF Inv

\* A signal_struct of which t does not drop the last reference is left with another user that has been
\* published: a child that has a reference has a new one.
LEMMA OtherUser ==
  ASSUME Inv, NEW t \in Tasks, "signal" \in holds[t], ptr[t]["signal"] \in Tasks,
         count["signal"][ptr[t]["signal"]] # 1
  PROVE  \E u \in Tasks : u # t /\ st[u] \in {"live", "zombie", "reaped"} /\ Signal(u) = Signal(t)
<1>1. PICK H : H = Holders("signal", ptr[t]["signal"])
  OBVIOUS
<1>2. "signal" \in Kinds /\ t \in H /\ IsFiniteSet(H) /\ Cardinality(H) # 1
  BY <1>1, FiniteParts DEF Holders, Kinds, Inv, Counted
<1>3. PICK u \in H : u # t
  <2>1. CASE H = {t}
    BY <1>2, <2>1, FS_Singleton
  <2>2. CASE H # {t}
    BY <1>2, <2>2
  <2> QED BY <2>1, <2>2
<1>4. u \in Tasks /\ "signal" \in holds[u] /\ ptr[u]["signal"] = ptr[t]["signal"]
      /\ Stage(u) /\ st[u] \in States
  BY <1>1 DEF Holders, Inv, Stages, Fields
<1>5. CASE st[u] = "new"
  <2>1. PICK w \in Tasks : fork[w].child = u
    BY <1>4, <1>5 DEF Inv, Forks
  <2>2. fork[w].at \in ChildSteps
    BY <1>4, <2>1, RootAssumption DEF Inv, Forks, Forking
  <2>3. ChildHas(w, u, fork[w].at, fork[w].flags)
    BY <2>1, <2>2, Kid DEF Child
  <2> QED BY <1>3, <1>4, <2>3 DEF ChildHas
<1>6. CASE st[u] # "new"
  BY <1>3, <1>4, <1>6 DEF Stage, States, Signal
<1> QED BY <1>5, <1>6

LEMMA __put_task_structKeeps ==
  ASSUME Inv, NEW t \in Tasks, __put_task_struct(t), UNCHANGED scenario
  PROVE  Inv'
<1>1. /\ st[t] = "reaped" /\ rcu_users[t] = 0 /\ t \notin refs /\ fork[t].at = "none" /\ Stage(t) /\ Fields
      /\ t # Root /\ t \notin Published /\ (\A k \in Kinds : ptr[t][k] \in Tasks) /\ holds[t] = {"signal"}
      /\ Signal(t) \in Tasks
  BY NoForks DEF __put_task_struct, Inv, Stages, Stage, Published, Signal, Kinds
<1>2. PICK freed : freed = {s \in {Signal(t)} : count["signal"][s] = 1}
  OBVIOUS
<1>3. /\ killed' = killed \ freed /\ pending' = pending \ freed
      /\ seen' = [s \in Tasks |-> IF s \in freed THEN {} ELSE seen[s]]
      /\ own' = [own EXCEPT ![t] = @ \ {"security", "creds", "task"}]
      /\ ptr' = [ptr EXCEPT ![t] = [k \in Kinds |-> None]] /\ work' = work \ {t}
      /\ st' = [st EXCEPT ![t] = "free"]
      /\ UNCHANGED <<scenario, fork, nproc, sent, nr_threads, group_threads, real_parent, leader,
                     pid_adding, filter,
                     rcu_users, refs>>
  BY <1>2 DEF __put_task_struct, treeVars, lifeVars
<1>4. /\ st'[t] = "free" /\ own'[t] = own[t] \ {"security", "creds", "task"} /\ t \notin work'
      /\ \A k \in Kinds : ptr'[t][k] = None
      /\ \A u \in Tasks : u # t => /\ st'[u] = st[u] /\ own'[u] = own[u] /\ ptr'[u] = ptr[u]
                                   /\ Signal(u)' = Signal(u) /\ (u \in work' <=> u \in work)
  BY <1>1, <1>3 DEF Fields, Signal
<1>5. /\ Counted' /\ count' \in [Kinds -> [Tasks -> Int]] /\ holds' \in [Tasks -> SUBSET Kinds]
      /\ holds'[t] = {} /\ \A u \in Tasks : u # t => holds'[u] = holds[u]
  <2>1. count' = [k \in Kinds |-> IF k \in {"signal"} THEN [count[k] EXCEPT ![ptr[t][k]] = @ - 1] ELSE count[k]]
    BY <1>1 DEF __put_task_struct, Fields, Signal
  <2>2. Drop(t, {"signal"})
    BY <1>1, <1>4, <2>1 DEF Drop, __put_task_struct
  <2>3. /\ Counted' /\ count' \in [Kinds -> [Tasks -> Int]] /\ holds' \in [Tasks -> SUBSET Kinds]
        /\ holds'[t] = holds[t] \ {"signal"} /\ \A u \in Tasks : u # t => holds'[u] = holds[u]
    BY <1>1, <2>2, Drops
  <2> QED BY <1>1, <2>3
<1>6. Published' = Published /\ \A x \in Tasks : Threads(x)' = Threads(x)
  <2>1. Published' = Published
    BY <1>1, <1>4 DEF Published
  <2>2. \A u \in Published : Signal(u)' = Signal(u)
    BY <1>1, <1>4 DEF Published
  <2> QED BY <2>1, <2>2 DEF Threads
<1>7. Fields'
  <2>1. own' \in [Tasks -> SUBSET Things] /\ st' \in [Tasks -> States] /\ work' \subseteq Tasks
    BY <1>1, <1>3 DEF Fields, States
  <2>2. ptr' \in [Tasks -> [Kinds -> Tasks \cup {None}]]
    <3>1. PICK none : none = [k \in Kinds |-> None]
      OBVIOUS
    <3>2. none \in [Kinds -> Tasks \cup {None}] /\ ptr' = [ptr EXCEPT ![t] = none]
      BY <1>3, <3>1
    <3> QED BY <1>1, <3>2 DEF Fields
  <2>3. seen' \in [Tasks -> SUBSET Signals] /\ killed' \subseteq Tasks /\ pending' \subseteq Tasks
    BY <1>1, <1>3 DEF Fields
  <2> QED BY <1>1, <1>3, <1>5, <2>1, <2>2, <2>3 DEF Fields
<1>8. Stages'
  <2>1. ASSUME NEW u \in Tasks, u # t PROVE Stage(u)'
    BY <2>1, <1>3, <1>4, <1>5, <1>6 DEF Inv, Stages, Stage
  <2>2. Stage(t)'
    <3>1. "stack" \notin own[t] /\ own[t] \subseteq {"task", "stack", "creds", "security"}
      BY <1>1 DEF Stage, One
    <3>2. own'[t] = {}
      BY <1>4, <3>1
    <3>3. leader[t] = None /\ real_parent[t] = None /\ t \notin filter
      BY <1>1 DEF Stage
    <3> QED BY <1>1, <1>3, <1>4, <1>5, <1>6, <3>2, <3>3 DEF Stage
  <2>3. st'[Root] = "live"
    BY <1>1, <1>4, RootAssumption DEF Inv, Stages
  <2> QED BY <2>1, <2>2, <2>3 DEF Stages
<1>9. Forks'
  <2>1. OwnBusiness(t)
    BY <1>3, <1>4, <1>5 DEF OwnBusiness, Kinds
  <2> QED BY <1>1, <1>3, <1>4, <2>1, ForksStay
<1>10. Numbers'
  <2>1. Procs' = Procs
    BY <1>1, <1>4 DEF Procs
  <2> QED BY <1>3, <1>6, <2>1 DEF Inv, Numbers
<1>11. Family'
  <2>1. \A u \in Tasks : real_parent'[u] # None => st'[real_parent'[u]] = "live"
    BY <1>1, <1>3, <1>4 DEF Inv, Family, Fields
  <2>2. \A u \in Published : Signal(u)' = Signal(u)
    BY <1>1, <1>4 DEF Published
  <2> QED BY <1>3, <1>6, <2>1, <2>2 DEF Inv, Family
<1>12. KilledInUse'
  <2>1. ASSUME NEW s \in killed'
        PROVE  \E u \in Tasks : u # t /\ st[u] \in {"live", "zombie", "reaped"} /\ Signal(u) = s
    <3>1. s \in killed /\ s \notin freed
      BY <1>3
    <3>2. CASE s = Signal(t)
      <4>1. count["signal"][ptr[t]["signal"]] # 1
        BY <1>2, <3>1, <3>2 DEF Signal
      <4> QED BY <1>1, <3>2, <4>1, OtherUser DEF Signal
    <3>3. CASE s # Signal(t)
      BY <3>1, <3>3 DEF Inv, KilledInUse
    <3> QED BY <3>2, <3>3
  <2> QED BY <1>4, <2>1 DEF KilledInUse
<1>13. SignalsReachAll'
  <2>1. ASSUME NEW u \in Tasks, st'[u] = "live" PROVE seen'[Signal(u)] = sent
    <3>1. u # t /\ st[u] = "live" /\ Signal(u) \in Tasks /\ seen[Signal(u)] = sent /\ "signal" \in holds[u]
      BY <1>1, <1>4, <2>1 DEF Inv, SignalsReachAll, Stages, Stage, Signal, Kinds
    <3>2. Signal(u) \notin freed
      BY <1>1, <1>2, <3>1, LastReference DEF Signal, Kinds
    <3> QED BY <1>3, <3>1, <3>2
  <2> QED BY <1>3, <1>4, <2>1 DEF SignalsReachAll
<1>14. ThreadsAgree'
  <2>1. \A u \in Tasks : st'[u] = "live" => st[u] = "live" /\ u # t
    BY <1>4
  <2> QED BY <1>3, <1>4, <2>1 DEF Inv, ThreadsAgree
<1> QED BY <1>5, <1>7, <1>8, <1>9, <1>10, <1>11, <1>12, <1>13, <1>14 DEF Inv

-----------------------------------------------------------------------------
(* The invariant.                                                          *)

LEMMA InitInv ==
  ASSUME Init
  PROVE  Inv
<1> USE RootAssumption DEF Init
<1>1. /\ st[Root] = "live" /\ holds[Root] = Kinds /\ rcu_users[Root] = 2 /\ leader[Root] = Root
      /\ {"task", "stack", "creds", "pid"} \subseteq own[Root] /\ own[Root] \subseteq Things
      /\ \A k \in Kinds : ptr[Root][k] = Root
      /\ \A t \in Tasks : t # Root => /\ st[t] = "free" /\ own[t] = {} /\ holds[t] = {} /\ rcu_users[t] = 0
                                      /\ leader[t] = None /\ \A k \in Kinds : ptr[t][k] = None
      /\ \A t \in Tasks : fork[t] = NoFork /\ real_parent[t] = None /\ seen[t] = {}
      /\ sent = {} /\ killed = {} /\ filter = {} /\ work = {} /\ refs = {}
  BY DEF Things, OwnSteps
<1>2. Fields
  <2>1. fork \in [Tasks -> ForkStates]
    BY NoForkIs
  <2>2. own \in [Tasks -> SUBSET Things]
    BY <1>1
  <2>3. st \in [Tasks -> States] /\ holds \in [Tasks -> SUBSET Kinds]
    BY DEF States
  <2> QED BY <2>1, <2>2, <2>3 DEF Fields
<1>3. Published = {Root}
  BY <1>1 DEF Published
<1>4. Stages
  BY <1>1, <1>3 DEF Stages, Stage
<1>5. Forks
  <2>1. \A t \in Tasks : Forking(t)
    BY <1>1, NoForkIs DEF Forking
  <2> QED BY <1>1, <2>1, NoForkIs DEF Forks
<1>6. Cardinality({Root}) = 1 /\ Cardinality({}) = 0
  BY FS_Singleton, FS_EmptySet
<1>7. Counted
  <2>1. ASSUME NEW k \in Kinds, NEW o \in Tasks PROVE count[k][o] = Cardinality(Holders(k, o))
    <3>1. CASE o = Root
      <4>1. Holders(k, o) = {Root}
        BY <1>1, <3>1 DEF Holders
      <4> QED BY <1>6, <3>1, <4>1
    <3>2. CASE o # Root
      <4>1. Holders(k, o) = {}
        BY <1>1, <3>2 DEF Holders
      <4> QED BY <1>6, <3>2, <4>1
    <3> QED BY <3>1, <3>2
  <2> QED BY <2>1 DEF Counted
<1>8. Numbers
  <2>1. Procs = {Root}
    BY <1>1 DEF Procs
  <2>2. \A s \in Tasks : Threads(s) # {} => s = Root /\ Threads(s) = {Root}
    BY <1>1, <1>3 DEF Threads, Signal, Kinds
  <2> QED BY <1>3, <1>6, <2>1, <2>2 DEF Numbers
<1>9. Family /\ KilledInUse
  BY <1>1, <1>3 DEF Family, KilledInUse
<1>10. SignalsReachAll /\ ThreadsAgree
  <2>1. \A t \in Tasks : st[t] = "live" => t = Root
    BY <1>1
  <2>2. Signal(Root) = Root
    BY <1>1 DEF Signal, Kinds
  <2>3. SignalsReachAll
    BY <1>1, <2>1, <2>2 DEF SignalsReachAll
  <2>4. ThreadsAgree
    BY <1>1, <2>1 DEF ThreadsAgree
  <2> QED BY <2>3, <2>4
<1> QED BY <1>2, <1>4, <1>5, <1>7, <1>8, <1>9, <1>10 DEF Inv

LEMMA NextInv ==
  ASSUME Inv, [Next]_vars
  PROVE  Inv'
<1>1. CASE Next
  <2>1. UNCHANGED scenario
    BY <1>1 DEF Next
  <2>2. ASSUME NEW t \in Tasks, NEW flags \in scenario.flags, multiprocess(t, flags) PROVE Inv'
    BY <2>1, <2>2, multiprocessKeeps
  <2>3. ASSUME NEW t \in Tasks, task_sigpending(t) \/ dup_task_struct(t) PROVE Inv'
    BY <2>1, <2>3, task_sigpendingKeeps, dup_task_structKeeps
  <2>4. ASSUME NEW t \in Tasks, copy_creds(t) \/ limits(t) \/ take(t) \/ pidfd(t) PROVE Inv'
    BY <2>1, <2>4, copy_credsKeeps, limitsKeeps, takeKeeps, pidfdKeeps
  <2>5. ASSUME NEW t \in Tasks, copy_files(t) \/ copy_fs(t) \/ copy_sighand(t) \/ copy_signal(t) \/ copy_mm(t)
        PROVE  Inv'
    BY <2>1, <2>5, copy_filesKeeps, copy_fsKeeps, copy_sighandKeeps, copy_signalKeeps,
       copy_mmKeeps
  <2>6. ASSUME NEW t \in Tasks, pidfd_put_user_fails(t) \/ publish(t) \/ Fail(t, fork[t].at) PROVE Inv'
    BY <2>1, <2>6, pidfd_put_user_failsKeeps, publishKeeps, FailKeeps
  <2>7. ASSUME NEW t \in Tasks, get_signal(t) \/ seccomp_sync_threads(t) \/ complete_signal(t) PROVE Inv'
    BY <2>1, <2>7, get_signalKeeps, seccomp_sync_threadsKeeps, complete_signalKeeps
  <2>8. ASSUME NEW t \in Tasks, do_exit(t) \/ release_task(t) \/ finish_task_switch(t) PROVE Inv'
    BY <2>1, <2>8, do_exitKeeps, release_taskKeeps, finish_task_switchKeeps
  <2>9. ASSUME NEW t \in Tasks, get_task_struct(t) \/ put_task_struct(t) \/ __put_task_struct(t) PROVE Inv'
    BY <2>1, <2>9, get_task_structKeeps, put_task_structKeeps, __put_task_structKeeps
  <2>10. ASSUME NEW sig \in Signals, kill_pgrp(sig) PROVE Inv'
    BY <2>1, <2>10, kill_pgrpKeeps
  <2>11. CASE disable_pid_allocation
    BY <2>1, <2>11, disable_pid_allocationKeeps
  <2> QED BY <1>1, <2>2, <2>3, <2>4, <2>5, <2>6, <2>7, <2>8, <2>9, <2>10, <2>11 DEF Next, Step
<1>2. CASE UNCHANGED vars
  <2> USE <1>2 DEF vars, copyVars, sigVars, treeVars, secVars, lifeVars
  <2>1. Rest
    BY DEF Rest
  <2>2. fork' = fork /\ fork' \in [Tasks -> ForkStates]
    BY DEF Inv, Fields
  <2>3. Forks'
    BY DEF Inv, Forks, Forking, ChildHas
  <2> QED BY <2>1, <2>2, <2>3, RestKeeps
<1> QED BY <1>1, <1>2

\* The invariant holds in every state: what the child of a fork has is what the ladder of its next
\* step gives back, and every count, number, leader and parent is exact.
THEOREM Invariance == Spec => []Inv
BY InitInv, NextInv, PTL DEF Spec

-----------------------------------------------------------------------------
(* What follows.                                                           *)

LEMMA AtsAreSteps ==
  Ats \subseteq {"none"} \cup {Steps[i] : i \in 2 .. Len(Steps)}
<1>1. /\ Steps[2] = "sigpending" /\ Steps[3] = "dup_task_struct" /\ Steps[4] = "creds" /\ Steps[5] = "limits"
      /\ Steps[6] = "mempolicy" /\ Steps[7] = "perf" /\ Steps[8] = "audit" /\ Steps[9] = "security"
      /\ Steps[10] = "semundo" /\ Steps[11] = "files" /\ Steps[12] = "fs" /\ Steps[13] = "sighand"
      /\ Steps[14] = "signal" /\ Steps[15] = "mm" /\ Steps[16] = "namespaces" /\ Steps[17] = "io"
      /\ Steps[18] = "thread" /\ Steps[19] = "pid" /\ Steps[20] = "pidfd" /\ Steps[21] = "cgroup"
      /\ Steps[22] = "publish"
  BY DEF Steps
<1>2. Len(Steps) = 22
  BY DEF Steps
<1> QED BY <1>1, <1>2 DEF Ats, ChildSteps

LEMMA InvTypes ==
  ASSUME Inv
  PROVE  TypeOK
<1>1. Fields
  BY DEF Inv
<1>2. ASSUME NEW t \in Tasks
      PROVE  /\ fork[t].at \in {"none"} \cup {Steps[i] : i \in 2 .. Len(Steps)}
             /\ fork[t].child \in Tasks \cup {None} /\ fork[t].delayed \subseteq Signals
             /\ own[t] \subseteq {"task", "stack", "creds", "pidfd"} \cup OwnSteps
             /\ holds[t] \subseteq Kinds /\ \A k \in Kinds : ptr[t][k] \in Tasks \cup {None}
  <2>1. fork[t] \in ForkStates
    BY <1>1 DEF Fields
  <2> QED BY <1>1, <2>1, AtsAreSteps DEF Fields, ForkStates, Things
<1>3. ASSUME NEW k \in Kinds, NEW o \in Tasks PROVE count[k][o] \in 0 .. Cardinality(Tasks)
  <2>1. Holders(k, o) \in SUBSET Tasks
    BY DEF Holders
  <2> QED BY <2>1, FiniteParts DEF Inv, Counted
<1>4. nproc \in 1 .. Cardinality(Tasks) /\ nr_threads \in 1 .. Cardinality(Tasks)
  <2>1. Root \in Procs /\ Root \in Published
    BY RootAssumption DEF Inv, Stages, Stage, Procs, Published
  <2>2. Procs \in SUBSET Tasks /\ Published \in SUBSET Tasks
    BY DEF Procs, Published
  <2>3. Cardinality(Procs) # 0 /\ Cardinality(Published) # 0
    BY <2>1, <2>2, FiniteParts, FS_EmptySet
  <2> QED BY <2>2, <2>3, FiniteParts DEF Inv, Numbers
<1>5. rcu_users \in [Tasks -> 0 .. 2]
  <2>1. ASSUME NEW t \in Tasks PROVE rcu_users[t] \in 0 .. 2
    <3>1. Stage(t) /\ st[t] \in States
      BY <1>1 DEF Inv, Stages, Fields
    <3> QED BY <3>1 DEF Stage, States, One
  <2> QED BY <1>1, <2>1 DEF Fields
<1>6. /\ st \in [Tasks -> {"free", "new", "live", "zombie", "reaped"}]
      /\ killed \cup pending \cup filter \cup work \cup refs \subseteq Tasks /\ pid_adding \in BOOLEAN
  BY <1>1 DEF Fields, States
<1> QED BY <1>2, <1>3, <1>4, <1>5, <1>6 DEF TypeOK

\* Every variable has its type: the counts stay between 0 and the number of tasks, and there is always
\* a process and a thread.
THEOREM TypeCorrect == Spec => []TypeOK
BY Invariance, InvTypes, PTL

\* Every reference count of files, fs, sighand, signal and mm is the number of tasks that hold a
\* reference, whichever step of copy_process() fails, and a failed fork leaves nothing behind.
THEOREM NothingLeaks == Spec => []CountsExact
<1>1. ASSUME Inv PROVE CountsExact
  <2>1. \A t \in Tasks : st[t] = "free" => own[t] = {} /\ holds[t] = {}
    BY <1>1 DEF Inv, Stages, Stage
  <2> QED BY <1>1, <2>1 DEF Inv, Counted, Holders, Numbers, Procs, CountsExact
<1> QED BY <1>1, Invariance, PTL

\* A task_struct is freed after its stack is left, its references are dropped, and its children and
\* threads have another parent and are gone.
THEOREM FreedLast == Spec => []StructOutlivesUsers
<1>1. ASSUME Inv PROVE StructOutlivesUsers
  <2>1. ASSUME NEW t \in Tasks, st[t] = "free"
        PROVE  /\ t \notin refs /\ "stack" \notin own[t]
               /\ \A u \in Published : leader[u] # t /\ real_parent[u] # t
    <3>1. t \notin refs /\ own[t] = {}
      BY <1>1, <2>1 DEF Inv, Stages, Stage
    <3>2. ASSUME NEW u \in Published PROVE leader[u] # t /\ real_parent[u] # t
      <4>1. u \in Tasks /\ leader[u] \in Published /\ (real_parent[u] # None => st[real_parent[u]] = "live")
        BY <1>1 DEF Inv, Family, Published
      <4> QED BY <2>1, <4>1, RootAssumption DEF Published
    <3> QED BY <3>1, <3>2
  <2> QED BY <2>1 DEF StructOutlivesUsers
<1> QED BY <1>1, Invariance, PTL

\* A signal to the process group reaches every process, the ones that were being created included.
THEOREM NoSignalLost == Spec => []SignalsReachAll
BY Invariance, PTL DEF Inv

\* The threads of a group share mm and sighand and agree on having a seccomp filter.
THEOREM ThreadsAlike == Spec => []ThreadsAgree
BY Invariance, PTL DEF Inv

-----------------------------------------------------------------------------
(* A thread group that has been killed does not grow.                      *)

\* Nobody appears.
Shrinks == \A u \in Tasks : u \in Published' => u \in Published /\ ptr'[u]["signal"] = ptr[u]["signal"]

\* The steps that change neither the state nor the pointers of a task.
LEMMA SameTasks ==
  ASSUME UNCHANGED <<st, ptr>>
  PROVE  Shrinks
BY DEF Shrinks, Published

\* The steps that only change the pointers of a child.
LEMMA KindShrinks ==
  ASSUME Inv, NEW t \in Tasks, fork[t].at \in ChildSteps, NEW k, UNCHANGED st,
         Share(t, k) \/ Copy(t, k) \/ UNCHANGED ptr
  PROVE  Shrinks
<1>1. Child(t) \notin Published /\ \A u \in Tasks : u # Child(t) => ptr'[u] = ptr[u]
  BY Kid DEF Share, Copy, Inv, Fields
<1> QED BY <1>1 DEF Shrinks, Published

LEMMA copy_kindsShrinks ==
  ASSUME Inv, NEW t \in Tasks, copy_files(t) \/ copy_fs(t) \/ copy_sighand(t) \/ copy_signal(t) \/ copy_mm(t)
  PROVE  Shrinks
<1>1. UNCHANGED st /\ fork[t].at \in ChildSteps
  BY DEF copy_files, copy_fs, copy_sighand, copy_signal, copy_mm, At, ChildSteps
<1>2. PICK k : Share(t, k) \/ Copy(t, k) \/ UNCHANGED ptr
  BY DEF copy_files, copy_fs, copy_sighand, copy_signal, copy_mm
<1> QED BY <1>1, <1>2, KindShrinks

LEMMA dup_task_structShrinks ==
  ASSUME Inv, NEW t \in Tasks, dup_task_struct(t)
  PROVE  Shrinks
<1>1. CASE UNCHANGED <<st, ptr>>
  BY <1>1, SameTasks
<1>2. CASE \E c \in Tasks : st' = [st EXCEPT ![c] = "new"] /\ ptr' = [ptr EXCEPT ![c] = ptr[t]]
  BY <1>2 DEF Shrinks, Published, Inv, Fields
<1> QED BY <1>1, <1>2 DEF dup_task_struct

LEMMA UnwindShrinks ==
  ASSUME Inv, NEW t \in Tasks, NEW l, Unwind(t, l), fork[t].at \in ChildSteps
  PROVE  Shrinks
<1>1. PICK c \in Tasks : c = Child(t)
  BY Kid
<1>2. st'[c] = "free" /\ \A u \in Tasks : u # c => st'[u] = st[u] /\ ptr'[u] = ptr[u]
  BY <1>1 DEF Unwind, Inv, Fields
<1> QED BY <1>2 DEF Shrinks, Published

LEMMA ExitShrinks ==
  ASSUME Inv, NEW t \in Tasks, do_exit(t) \/ release_task(t) \/ __put_task_struct(t)
  PROVE  Shrinks
<1>1. CASE do_exit(t)
  <2>1. st' = [st EXCEPT ![t] = "zombie"] /\ ptr' = ptr /\ st[t] = "live"
    BY <1>1 DEF do_exit
  <2> QED BY <2>1 DEF Shrinks, Published, Inv, Fields
<1>2. CASE release_task(t)
  <2>1. st' = [st EXCEPT ![t] = "reaped"] /\ ptr' = ptr
    BY <1>2 DEF release_task
  <2> QED BY <2>1 DEF Shrinks, Published, Inv, Fields
<1>3. CASE __put_task_struct(t)
  <2>1. st' = [st EXCEPT ![t] = "free"] /\ \A u \in Tasks : u # t => ptr'[u] = ptr[u]
    BY <1>3 DEF __put_task_struct, Inv, Fields
  <2> QED BY <2>1 DEF Shrinks, Published, Inv, Fields
<1> QED BY <1>1, <1>2, <1>3

\* The signal_struct of a child that may be published has not been killed: it is its creator's, or new.
LEMMA publishSpares ==
  ASSUME Inv, NEW t \in Tasks, publish(t)
  PROVE  /\ pid_adding /\ UNCHANGED <<ptr, killed>>
         /\ \E c \in Tasks : Published' = Published \cup {c} /\ Signal(c) \notin killed
<1>1. PICK c \in Tasks : c = Child(t) /\ st[c] = "new" /\ st[t] = "live"
  BY Kid DEF ChildSteps, publish, At
<1>2. /\ fork[t].at = "publish" /\ pid_adding /\ Signal(t) \notin killed /\ UNCHANGED <<ptr,
                                                                                        killed>>
      /\ st' = [st EXCEPT ![c] = "live"]
  BY <1>1 DEF publish, At, MayPublish
<1>3. Published' = Published \cup {c}
  BY <1>1, <1>2 DEF Published, Inv, Fields
<1>4. Signal(c) \notin killed
  <2>1. CASE "THREAD" \in fork[t].flags
    <3>1. ptr[c]["signal"] = ptr[t]["signal"]
      BY <1>1, <1>2, <2>1, Complete
    <3> QED BY <1>2, <3>1 DEF Signal
  <2>2. CASE "THREAD" \notin fork[t].flags
    <3>1. \A u \in Tasks \ {c} : ptr[u]["signal"] # ptr[c]["signal"]
      BY <1>1, <1>2, <2>2, Complete
    <3> QED BY <1>1, <3>1 DEF Signal, Inv, KilledInUse
  <2> QED BY <2>1, <2>2
<1> QED BY <1>2, <1>3, <1>4

\* No thread appears in a group with a fatal signal, and no task in a pid namespace that has been
\* closed: a fork in progress sees both before it makes its child visible.
THEOREM KilledStayBounded == Spec => KilledGroupsShrink
<1> DEFINE A == /\ \A s \in Tasks : s \in killed /\ s \in killed' => Threads(s)' \subseteq Threads(s)
                /\ ~pid_adding => Published' \subseteq Published
<1>1. ASSUME Shrinks PROVE A
  <2>1. \A u \in Tasks : u \in Published' => u \in Published /\ ptr'[u]["signal"] = ptr[u]["signal"]
    BY <1>1 DEF Shrinks
  <2> QED BY <2>1 DEF Published, Threads, Signal
<1>2. ASSUME Inv, NEW t \in Tasks, publish(t) PROVE A
  <2>1. PICK c \in Tasks : Published' = Published \cup {c} /\ Signal(c) \notin killed
    BY <1>2, publishSpares
  <2>2. pid_adding /\ \A u \in Tasks : Signal(u)' = Signal(u)
    BY <1>2, publishSpares DEF Signal
  <2>3. ASSUME NEW s \in Tasks, s \in killed PROVE Threads(s)' \subseteq Threads(s)
    <3>1. Threads(s)' = {u \in Published \cup {c} : Signal(u) = s}
      BY <2>1, <2>2 DEF Threads, Published
    <3> QED BY <2>1, <2>3, <3>1 DEF Threads
  <2> QED BY <2>2, <2>3
<1>3. ASSUME Inv, Step PROVE A
  <2>1. ASSUME NEW t \in Tasks, NEW flags \in scenario.flags, multiprocess(t, flags) PROVE A
    BY <1>1, <2>1, SameTasks DEF multiprocess, copyVars
  <2>2. ASSUME NEW t \in Tasks, task_sigpending(t) \/ limits(t) PROVE A
    BY <1>1, <2>2, SameTasks DEF task_sigpending, limits, copyVars
  <2>3. ASSUME NEW t \in Tasks, copy_creds(t) \/ take(t) \/ pidfd(t) PROVE A
    BY <1>1, <2>3, SameTasks DEF copy_creds, take, pidfd
  <2>4. ASSUME NEW t \in Tasks, get_signal(t) \/ seccomp_sync_threads(t) \/ complete_signal(t) PROVE A
    BY <1>1, <2>4, SameTasks DEF get_signal, seccomp_sync_threads, complete_signal, copyVars
  <2>5. ASSUME NEW t \in Tasks, finish_task_switch(t) \/ get_task_struct(t) \/ put_task_struct(t) PROVE A
    BY <1>1, <2>5, SameTasks DEF finish_task_switch, get_task_struct, put_task_struct, copyVars
  <2>6. ASSUME NEW t \in Tasks, copy_files(t) \/ copy_fs(t) \/ copy_sighand(t) \/ copy_signal(t) \/ copy_mm(t)
        PROVE  A
    BY <1>1, <1>3, <2>6, copy_kindsShrinks
  <2>7. ASSUME NEW t \in Tasks, dup_task_struct(t) PROVE A
    BY <1>1, <1>3, <2>7, dup_task_structShrinks
  <2>8. ASSUME NEW t \in Tasks, Fail(t, fork[t].at) PROVE A
    <3>1. fork[t].at \in Ats /\ CanFail(t, fork[t].at)
      BY <1>3, <2>8 DEF Inv, Fields, ForkStates, Fail
    <3>2. fork[t].at \in ChildSteps
      BY <3>1 DEF Ats, CanFail
    <3> QED BY <1>1, <1>3, <2>8, <3>2, UnwindShrinks DEF Fail
  <2>9. ASSUME NEW t \in Tasks, pidfd_put_user_fails(t) PROVE A
    <3>1. fork[t].at \in ChildSteps
      BY <2>9 DEF pidfd_put_user_fails, At, ChildSteps
    <3> QED BY <1>1, <1>3, <2>9, <3>1, UnwindShrinks DEF pidfd_put_user_fails
  <2>10. ASSUME NEW t \in Tasks, do_exit(t) \/ release_task(t) \/ __put_task_struct(t) PROVE A
    BY <1>1, <1>3, <2>10, ExitShrinks
  <2>11. ASSUME NEW sig \in Signals, kill_pgrp(sig) PROVE A
    BY <1>1, <2>11, SameTasks DEF kill_pgrp, copyVars
  <2>12. CASE disable_pid_allocation
    BY <1>1, <2>12, SameTasks DEF disable_pid_allocation, copyVars
  <2>13. ASSUME NEW t \in Tasks, publish(t) PROVE A
    BY <1>2, <1>3, <2>13
  <2> HIDE DEF A
  <2> QED BY <1>3, <2>1, <2>2, <2>3, <2>4, <2>5, <2>6, <2>7, <2>8, <2>9, <2>10, <2>11, <2>12,
             <2>13 DEF Step
<1>4. ASSUME Inv, [Next]_vars PROVE [A]_vars
  BY <1>3, <1>4 DEF Next
<1> QED BY <1>4, Invariance, PTL DEF Spec, KilledGroupsShrink

=============================================================================
