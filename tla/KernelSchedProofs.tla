------------------------- MODULE KernelSchedProofs -------------------------
(***************************************************************************)
(* The safety properties of KernelSched for every set of tasks, every set  *)
(* of requests and nice values, and every width of the random word.        *)
(*                                                                         *)
(* None of the properties is inductive alone: a wake-up is not lost only   *)
(* because a task in a wait loop is queued until it goes to sleep, list_del*)
(* is legal only because the queues match the tasks, and a new task gets   *)
(* to the right queue only because nobody touches the child of a fork      *)
(* before its first wake-up.  Inv is their conjunction with the four facts *)
(* below about the tasks that are in a kernel path.                        *)
(*                                                                         *)
(* The lemmas come first: what the functions of core.c do to the run queue *)
(* and to the task_structs, whatever the processes are and in whatever     *)
(* state the kernel calls them.                                            *)
(***************************************************************************)
EXTENDS KernelSched, SequenceTheorems, FiniteSetTheorems, WellFoundedInduction, TLAPS

-----------------------------------------------------------------------------
(* The list of the lottery class *)

\* Every non-empty set of naturals has a least element.  Induction over the
\* queue is done by looking at a least counterexample.
LEMMA LeastElement ==
  ASSUME NEW S \in SUBSET Nat, S # {}
  PROVE  \E m \in S : \A n \in S : m <= n
<1> DEFINE Less == {pair \in Nat \X Nat : pair[1] < pair[2]}
<1>1. IsWellFoundedOn(Less, Nat)
  BY NatLessThanWellFounded DEF OpToRel
<1> HIDE DEF Less
<1>2. PICK m \in S : \A n \in S : ~ (<<n, m>> \in Less)
  BY <1>1, WFMin
<1>3. \A n \in S : ~ (n < m)
  BY <1>2 DEF Less
<1> QED BY <1>3

\* What list_del leaves of the list.
LEMMA RemoveAtProperties ==
  ASSUME NEW queue \in Seq(Task), NEW k \in 1 .. Len(queue)
  PROVE  /\ RemoveAt(queue, k) \in Seq(Task)
         /\ Len(RemoveAt(queue, k)) = Len(queue) - 1
         /\ \A i \in 1 .. Len(queue) - 1 :
               RemoveAt(queue, k)[i] = IF i < k THEN queue[i] ELSE queue[i+1]
<1> DEFINE a == SubSeq(queue, 1, k-1)
           b == SubSeq(queue, k+1, Len(queue))
<1>1. a \in Seq(Task) /\ Len(a) = k - 1 /\ \A i \in 1 .. k-1 : a[i] = queue[i]
  OBVIOUS
<1>2. b \in Seq(Task) /\ Len(b) = Len(queue) - k
      /\ \A i \in 1 .. Len(queue) - k : b[i] = queue[k+i]
  OBVIOUS
<1> HIDE DEF a, b
<1>3. /\ a \o b \in Seq(Task)
      /\ Len(a \o b) = Len(queue) - 1
      /\ \A i \in 1 .. Len(queue) - 1 :
               (a \o b)[i] = IF i < k THEN queue[i] ELSE queue[i+1]
  <2>1. a \o b \in Seq(Task) /\ Len(a \o b) = Len(a) + Len(b)
    BY <1>1, <1>2, ConcatProperties
  <2>2. \A i \in 1 .. Len(a) + Len(b) : (a \o b)[i] = IF i <= Len(a) THEN a[i] ELSE b[i - Len(a)]
    BY <1>1, <1>2, ConcatProperties
  <2>3. ASSUME NEW i \in 1 .. Len(queue) - 1
        PROVE  (a \o b)[i] = IF i < k THEN queue[i] ELSE queue[i+1]
    <3>1. CASE i < k
      BY <3>1, <2>2, <1>1, <1>2
    <3>2. CASE i >= k
      <4>1. i - (k-1) \in 1 .. Len(queue) - k /\ k + (i - (k-1)) = i + 1
        BY <3>2
      <4>2. (a \o b)[i] = b[i - (k-1)]
        BY <3>2, <2>2, <1>1, <1>2
      <4> QED BY <4>1, <4>2, <3>2, <1>2
    <3>3. i < k \/ i >= k
      OBVIOUS
    <3> QED BY <3>1, <3>2, <3>3, Zenon
  <2>4. Len(a) + Len(b) = Len(queue) - 1
    BY <1>1, <1>2
  <2> QED BY <2>1, <2>3, <2>4
<1> QED BY <1>3 DEF RemoveAt, a, b

\* q occurs in the list.
Occurs(queue, q) == \E i \in 1 .. Len(queue) : queue[i] = q

\* list_add_tail of a task that is not on the list.
LEMMA AppendOccurs ==
  ASSUME NEW queue \in Seq(Task), NEW p \in Task, NoDuplicates(queue), ~ Occurs(queue, p)
  PROVE  /\ NoDuplicates(Append(queue, p))
         /\ \A q : Occurs(Append(queue, p), q) <=> Occurs(queue, q) \/ q = p
<1> DEFINE longer == Append(queue, p)
<1>1. /\ Len(longer) = Len(queue) + 1 /\ longer[Len(queue) + 1] = p
      /\ \A i \in 1 .. Len(queue) : longer[i] = queue[i]
      /\ Len(queue) \in Nat
  OBVIOUS
<1> HIDE DEF longer
<1>2. \A i \in 1 .. Len(longer) : i \in 1 .. Len(queue) \/ i = Len(queue) + 1
  BY <1>1
<1>3. \A i \in 1 .. Len(queue) : queue[i] # p
  BY DEF Occurs
<1>4. NoDuplicates(longer)
  <2> SUFFICES ASSUME NEW i \in 1 .. Len(longer), NEW j \in 1 .. Len(longer), longer[i] = longer[j]
               PROVE  i = j
    BY DEF NoDuplicates
  <2>1. CASE i \in 1 .. Len(queue) /\ j \in 1 .. Len(queue)
    BY <2>1, <1>1 DEF NoDuplicates
  <2>2. CASE i \in 1 .. Len(queue) /\ j = Len(queue) + 1
    BY <2>2, <1>1, <1>3
  <2>3. CASE i = Len(queue) + 1 /\ j \in 1 .. Len(queue)
    BY <2>3, <1>1, <1>3
  <2> QED BY <1>2, <2>1, <2>2, <2>3
<1>5. ASSUME NEW q PROVE Occurs(longer, q) <=> Occurs(queue, q) \/ q = p
  <2>1. ASSUME Occurs(longer, q) PROVE Occurs(queue, q) \/ q = p
    <3>1. PICK i \in 1 .. Len(longer) : longer[i] = q
      BY <2>1 DEF Occurs
    <3>2. CASE i \in 1 .. Len(queue)
      BY <1>1, <3>1, <3>2 DEF Occurs
    <3>3. CASE i = Len(queue) + 1
      BY <1>1, <3>1, <3>3
    <3> QED BY <1>2, <3>2, <3>3
  <2>2. ASSUME Occurs(queue, q) PROVE Occurs(longer, q)
    <3>1. PICK i \in 1 .. Len(queue) : queue[i] = q
      BY <2>2 DEF Occurs
    <3>2. i \in 1 .. Len(longer) /\ longer[i] = q
      BY <1>1, <3>1
    <3> QED BY <3>2 DEF Occurs
  <2>3. Occurs(longer, p)
    <3>1. Len(queue) + 1 \in 1 .. Len(longer)
      BY <1>1
    <3> QED BY <1>1, <3>1 DEF Occurs
  <2> QED BY <2>1, <2>2, <2>3
<1> QED BY <1>4, <1>5 DEF longer

\* list_del of the k-th task.
LEMMA RemoveAtOccurs ==
  ASSUME NEW queue \in Seq(Task), NEW k \in 1 .. Len(queue), NoDuplicates(queue)
  PROVE  /\ NoDuplicates(RemoveAt(queue, k))
         /\ \A q : Occurs(RemoveAt(queue, k), q) <=> Occurs(queue, q) /\ q # queue[k]
<1> DEFINE shorter == RemoveAt(queue, k)
           old(i) == IF i < k THEN i ELSE i + 1
<1>1. /\ Len(queue) \in Nat /\ Len(shorter) = Len(queue) - 1
      /\ \A i \in 1 .. Len(queue) - 1 : shorter[i] = IF i < k THEN queue[i] ELSE queue[i+1]
  BY RemoveAtProperties
<1> HIDE DEF shorter
<1>2. \A i \in 1 .. Len(shorter) : old(i) \in 1 .. Len(queue) /\ old(i) # k /\ shorter[i] = queue[old(i)]
  BY <1>1
<1>3. \A i, j \in 1 .. Len(shorter) : old(i) = old(j) => i = j
  BY <1>1
<1>4. \A m \in 1 .. Len(queue) : m # k => \E i \in 1 .. Len(shorter) : old(i) = m
  <2> SUFFICES ASSUME NEW m \in 1 .. Len(queue), m # k PROVE \E i \in 1 .. Len(shorter) : old(i) = m
    OBVIOUS
  <2>1. CASE m < k
    <3>1. m \in 1 .. Len(shorter) /\ old(m) = m
      BY <1>1, <2>1
    <3> QED BY <3>1
  <2>2. CASE m > k
    <3>1. m - 1 \in 1 .. Len(shorter) /\ old(m - 1) = m
      BY <1>1, <2>2
    <3> QED BY <3>1
  <2> QED BY <2>1, <2>2
<1> HIDE DEF old
<1>5. NoDuplicates(shorter)
  BY <1>2, <1>3 DEF NoDuplicates
<1>6. ASSUME NEW q PROVE Occurs(shorter, q) <=> Occurs(queue, q) /\ q # queue[k]
  <2>1. ASSUME Occurs(shorter, q) PROVE Occurs(queue, q) /\ q # queue[k]
    <3>1. PICK i \in 1 .. Len(shorter) : shorter[i] = q
      BY <2>1 DEF Occurs
    <3>2. old(i) \in 1 .. Len(queue) /\ old(i) # k /\ queue[old(i)] = q
      BY <1>2, <3>1
    <3>3. q # queue[k]
      BY <3>2 DEF NoDuplicates
    <3> QED BY <3>2, <3>3 DEF Occurs
  <2>2. ASSUME Occurs(queue, q), q # queue[k] PROVE Occurs(shorter, q)
    <3>1. PICK m \in 1 .. Len(queue) : queue[m] = q
      BY <2>2 DEF Occurs
    <3>2. PICK i \in 1 .. Len(shorter) : old(i) = m
      BY <1>4, <2>2, <3>1
    <3>3. shorter[i] = q
      BY <1>2, <3>1, <3>2
    <3> QED BY <3>3 DEF Occurs
  <2> QED BY <2>1, <2>2
<1> QED BY <1>5, <1>6 DEF shorter

-----------------------------------------------------------------------------
(* The run queue and the task_structs *)

KState == [task : [Task \cup {Idle} -> TaskStruct], rq : RunQueue,
           fault : {"none", "list_del", "update_curr", "err_ptr"}]

Counted == {"fair", "rt", "dl"}
Classes == Counted \cup {"lottery"}

\* The queues of k hold each task exactly where loc says.
Placed(k, loc) ==
    /\ \A p \in Task, class \in Counted : p \in k.rq.queued[class] <=> loc[p] = class
    /\ \A p \in Task : Linked(k.rq.ltr, p) <=> loc[p] = "lottery"
    /\ NoDuplicates(k.rq.ltr.queue)
    /\ k.rq.nr_running = Cardinality({p \in Task : loc[p] \in Counted})

\* Where QueuesMatchTasks wants them.
Place(k) == [p \in Task |-> IF k.task[p].on_rq THEN k.task[p].sched_class ELSE "none"]

\* n differs from k at most in need_resched.
Alike(k, n) ==
    /\ n \in KState
    /\ n.task = k.task /\ n.fault = k.fault /\ n.rq.curr = k.rq.curr
    /\ n.rq.ltr = k.rq.ltr /\ n.rq.queued = k.rq.queued /\ n.rq.nr_running = k.rq.nr_running

\* No task of Task is in the idle class.
NoneIdle(k) == \A p \in Task : k.task[p].sched_class \in Classes

-----------------------------------------------------------------------------
(* The list of the lottery class.                                          *)

\* list_add_tail links the task and keeps the other entries.
LEMMA EnqueueLinks ==
  ASSUME NEW ltr \in ltr_rqType, NEW p \in Task, NEW tk \in [Task -> Nat],
         ~ Linked(ltr, p), NoDuplicates(ltr.queue)
  PROVE  LET new == enqueue_task_lottery(ltr, p, tk)
         IN  /\ new \in ltr_rqType
             /\ NoDuplicates(new.queue)
             /\ \A q : Linked(new, q) <=> Linked(ltr, q) \/ q = p
<1>1. ltr.queue \in Seq(Task) /\ ltr.nr_running \in Int /\ ltr.total_tickets \in Int /\ tk[p] \in Int
  BY WordAssumption DEF ltr_rqType, RandomWord
<1>2. \A n \in Int : n % Word \in 0 .. Word - 1
  BY WordAssumption
<1>a. ltr.nr_running + 1 \in Int /\ ltr.total_tickets + tk[p] \in Int
  BY <1>1
<1>3. enqueue_task_lottery(ltr, p, tk) \in ltr_rqType
  <2>1. /\ Append(ltr.queue, p) \in Seq(Task)
        /\ (ltr.nr_running + 1) % Word \in 0 .. Word - 1
        /\ (ltr.total_tickets + tk[p]) % Word \in 0 .. Word - 1
    <3>1. Append(ltr.queue, p) \in Seq(Task)
      BY <1>1
    <3> QED BY <3>1, <1>2, <1>a
  <2> QED BY <2>1 DEF enqueue_task_lottery, ltr_rqType, RandomWord
<1>4. /\ NoDuplicates(Append(ltr.queue, p))
      /\ \A q : Occurs(Append(ltr.queue, p), q) <=> Occurs(ltr.queue, q) \/ q = p
  BY <1>1, AppendOccurs DEF Linked, Occurs
<1>5. enqueue_task_lottery(ltr, p, tk).queue = Append(ltr.queue, p)
  BY DEF enqueue_task_lottery
<1> DEFINE new == enqueue_task_lottery(ltr, p, tk)
<1> HIDE DEF new
<1>6. \A q : Linked(new, q) <=> Occurs(new.queue, q)
  BY DEF Linked, Occurs
<1>7. \A q : Linked(ltr, q) <=> Occurs(ltr.queue, q)
  BY DEF Linked, Occurs
<1>8. new.queue = Append(ltr.queue, p) /\ new \in ltr_rqType
  BY <1>3, <1>5 DEF new
<1>9. new \in ltr_rqType /\ NoDuplicates(new.queue)
  BY <1>4, <1>8
<1>10. \A q : Linked(new, q) <=> Linked(ltr, q) \/ q = p
  BY <1>4, <1>6, <1>7, <1>8
<1> QED BY <1>9, <1>10 DEF new

\* list_del unlinks the task and no other.
LEMMA DequeueUnlinks ==
  ASSUME NEW ltr \in ltr_rqType, NEW p \in Task, NEW tk \in [Task -> Nat],
         Linked(ltr, p), NoDuplicates(ltr.queue)
  PROVE  LET new == dequeue_task_lottery(ltr, p, tk)
         IN  /\ new \in ltr_rqType
             /\ NoDuplicates(new.queue)
             /\ \A q : Linked(new, q) <=> Linked(ltr, q) /\ q # p
<1> DEFINE pos == Position(ltr.queue, p)
<1>1. ltr.queue \in Seq(Task) /\ ltr.nr_running \in Int /\ ltr.total_tickets \in Int /\ tk[p] \in Int
  BY WordAssumption DEF ltr_rqType, RandomWord
<1>2. \A n \in Int : n % Word \in 0 .. Word - 1
  BY WordAssumption
<1>a. ltr.nr_running - 1 \in Int /\ ltr.total_tickets - tk[p] \in Int
  BY <1>1
<1>3. pos \in 1 .. Len(ltr.queue) /\ ltr.queue[pos] = p
  BY DEF Position, Linked
<1> HIDE DEF pos
<1>4. RemoveAt(ltr.queue, pos) \in Seq(Task)
  BY <1>1, <1>3, RemoveAtProperties
<1>5. dequeue_task_lottery(ltr, p, tk) \in ltr_rqType
  <2>1. /\ (ltr.nr_running - 1) % Word \in 0 .. Word - 1
        /\ (ltr.total_tickets - tk[p]) % Word \in 0 .. Word - 1
    BY <1>2, <1>a
  <2> QED BY <1>4, <2>1 DEF dequeue_task_lottery, ltr_rqType, RandomWord, pos
<1>6. /\ NoDuplicates(RemoveAt(ltr.queue, pos))
      /\ \A q : Occurs(RemoveAt(ltr.queue, pos), q) <=> Occurs(ltr.queue, q) /\ q # p
  BY <1>1, <1>3, RemoveAtOccurs
<1>7. dequeue_task_lottery(ltr, p, tk).queue = RemoveAt(ltr.queue, pos)
  BY DEF dequeue_task_lottery, pos
<1> DEFINE new == dequeue_task_lottery(ltr, p, tk)
<1> HIDE DEF new
<1>8. \A q : Linked(new, q) <=> Occurs(new.queue, q)
  BY DEF Linked, Occurs
<1>9. \A q : Linked(ltr, q) <=> Occurs(ltr.queue, q)
  BY DEF Linked, Occurs
<1>10. new.queue = RemoveAt(ltr.queue, pos) /\ new \in ltr_rqType
  BY <1>5, <1>7 DEF new
<1> QED BY <1>6, <1>8, <1>9, <1>10 DEF new

\* The draw returns a task of the list, or none.
LEMMA PickIsLinked ==
  ASSUME NEW ltr \in ltr_rqType, NEW tk, NEW Entrants, NEW random
  PROVE  LET next == pick_next_task_lottery(ltr, tk, Entrants, random)
         IN  next # NULL => next \in Task /\ Linked(ltr, next)
<1> DEFINE lucky == random % ltr.total_tickets
           hits == Hits(ltr.queue, tk, Entrants, lucky)
           stop == Stop(ltr.queue, tk, Entrants, lucky)
<1>1. ltr.queue \in Seq(Task) /\ Len(ltr.queue) \in Nat
  BY DEF ltr_rqType
<1>2. hits \subseteq 1 .. Len(ltr.queue)
  BY DEF Hits
<1>3. ASSUME ltr.queue # <<>> PROVE stop \in 1 .. Len(ltr.queue)
  <2>1. CASE hits = {}
    BY <1>1, <1>3, <2>1 DEF Stop
  <2>2. CASE hits # {}
    <3>1. \E m \in hits : \A n \in hits : m <= n
      BY <1>1, <1>2, <2>2, LeastElement
    <3> HIDE DEF hits
    <3>2. Min(hits) \in hits
      BY <3>1 DEF Min
    <3>3. stop = Min(hits)
      BY <2>2 DEF Stop, hits
    <3> QED BY <1>2, <3>2, <3>3
  <2> QED BY <2>1, <2>2
<1> HIDE DEF hits
<1> QED BY <1>1, <1>3 DEF pick_next_task_lottery, Linked

-----------------------------------------------------------------------------
(* The order of the classes.                                               *)

LEMMA Ranks ==
  /\ Rank("idle") = 1 /\ Rank("fair") = 2 /\ Rank("rt") = 3 /\ Rank("dl") = 4
  /\ Rank("lottery") = 6
<1> DEFINE s == SchedClasses
<1>1. /\ Len(s) = 6 /\ s[1] = "idle" /\ s[2] = "fair" /\ s[3] = "rt" /\ s[4] = "dl"
      /\ s[5] = "stop" /\ s[6] = "lottery"
  BY DEF SchedClasses
<1> HIDE DEF s
<1>2. \A i \in 1 .. Len(s) : i = 1 \/ i = 2 \/ i = 3 \/ i = 4 \/ i = 5 \/ i = 6
  BY <1>1
<1>3. ASSUME NEW c, NEW j \in 1 .. Len(s), s[j] = c, \A i \in 1 .. Len(s) : s[i] = c => i = j
      PROVE  Rank(c) = j
  BY <1>3 DEF Rank, s
<1>4. 1 \in 1 .. Len(s) /\ 2 \in 1 .. Len(s) /\ 3 \in 1 .. Len(s) /\ 4 \in 1 .. Len(s)
      /\ 6 \in 1 .. Len(s)
  BY <1>1
<1>5. Rank("idle") = 1
  BY <1>1, <1>2, <1>3, <1>4
<1>6. Rank("fair") = 2
  BY <1>1, <1>2, <1>3, <1>4
<1>7. Rank("rt") = 3
  BY <1>1, <1>2, <1>3, <1>4
<1>8. Rank("dl") = 4
  BY <1>1, <1>2, <1>3, <1>4
<1>9. Rank("lottery") = 6
  BY <1>1, <1>2, <1>3, <1>4
<1> QED BY <1>5, <1>6, <1>7, <1>8, <1>9

-----------------------------------------------------------------------------
(* The run queue.                                                          *)

\* A number of tasks.
LEMMA CountTasks ==
  ASSUME NEW S \in SUBSET Task
  PROVE  /\ IsFiniteSet(S) /\ Cardinality(S) \in Nat
         /\ \A p \in Task \ S : Cardinality(S \cup {p}) = Cardinality(S) + 1
         /\ \A p \in S : Cardinality(S \ {p}) = Cardinality(S) - 1
<1>1. IsFiniteSet(S)
  BY ProcessAssumption, FS_Subset
<1>2. Cardinality(S) \in Nat
  BY <1>1, FS_CardinalityType
<1>3. \A p \in Task \ S : Cardinality(S \cup {p}) = Cardinality(S) + 1
  BY <1>1, FS_AddElement
<1>4. \A p \in S : Cardinality(S \ {p}) = Cardinality(S) - 1
  BY <1>1, FS_RemoveElement
<1> QED BY <1>1, <1>2, <1>3, <1>4

\* enqueue_task puts a task nobody queued on the queue of its class.
LEMMA EnqueuePlaced ==
  ASSUME NEW k \in KState, NEW p \in Task, NEW loc \in [Task -> Classes \cup {"none"}],
         Placed(k, loc), loc[p] = "none", k.task[p].sched_class \in Classes
  PROVE  LET n == enqueue_task(k, p)
         IN  /\ n \in KState
             /\ n.task = k.task /\ n.fault = k.fault /\ n.rq.curr = k.rq.curr
             /\ Placed(n, [loc EXCEPT ![p] = k.task[p].sched_class])
<1> DEFINE class == k.task[p].sched_class
           new == [loc EXCEPT ![p] = class]
           n == enqueue_task(k, p)
           held == {q \in Task : loc[q] \in Counted}
<1>1. CASE class = "lottery"
  <2> DEFINE ltr == enqueue_task_lottery(k.rq.ltr, p, Tickets(k))
  <2>1. Tickets(k) \in [Task -> Nat] /\ k.rq.ltr \in ltr_rqType
    BY DEF KState, TaskStruct, Tickets, RunQueue
  <2>2. ~ Linked(k.rq.ltr, p) /\ NoDuplicates(k.rq.ltr.queue)
    BY DEF Placed
  <2>3. /\ ltr \in ltr_rqType
        /\ NoDuplicates(ltr.queue)
        /\ \A q : Linked(ltr, q) <=> Linked(k.rq.ltr, q) \/ q = p
    BY <2>1, <2>2, EnqueueLinks
  <2>4. n = [k EXCEPT !.rq.ltr = ltr]
    BY <1>1 DEF enqueue_task
  <2> HIDE DEF n, ltr
  <2>5. /\ n.rq.ltr = ltr /\ n.rq.queued = k.rq.queued /\ n.rq.nr_running = k.rq.nr_running
        /\ n.task = k.task /\ n.fault = k.fault /\ n.rq.curr = k.rq.curr
        /\ n \in KState
    BY <2>3, <2>4 DEF KState, RunQueue
  <2>6. {q \in Task : new[q] \in Counted} = held
    BY <1>1 DEF Counted
  <2>7. Placed(n, new)
    BY <1>1, <2>3, <2>5, <2>6 DEF Placed, Counted
  <2> QED BY <2>5, <2>7 DEF n
<1>2. CASE class # "lottery"
  <2>1. class \in Counted
    BY <1>2 DEF Classes
  <2>2. n = [k EXCEPT !.rq.queued[class] = @ \cup {p}, !.rq.nr_running = @ + 1]
    BY <1>2 DEF enqueue_task
  <2> HIDE DEF n, class
  <2>3. k.rq.queued \in [Counted -> SUBSET Task] /\ k.rq.nr_running \in Nat
    BY DEF KState, RunQueue, Counted
  <2>4. /\ n.rq.ltr = k.rq.ltr /\ n.rq.nr_running = k.rq.nr_running + 1
        /\ n.rq.queued = [k.rq.queued EXCEPT ![class] = @ \cup {p}]
        /\ n.task = k.task /\ n.fault = k.fault /\ n.rq.curr = k.rq.curr
        /\ n.rq.need_resched = k.rq.need_resched
    BY <2>2 DEF KState, RunQueue
  <2>5. n \in KState
    <3>1. [k.rq.queued EXCEPT ![class] = @ \cup {p}] \in [Counted -> SUBSET Task]
      BY <2>1, <2>3
    <3>2. k.rq.nr_running + 1 \in Nat
      BY <2>3
    <3> QED BY <3>1, <3>2, <2>2 DEF KState, RunQueue, Counted
  <2>6. {q \in Task : new[q] \in Counted} = held \cup {p}
    BY <2>1
  <2>7. Cardinality(held \cup {p}) = Cardinality(held) + 1
    <3>1. held \in SUBSET Task /\ p \in Task \ held
      BY DEF Counted
    <3> QED BY <3>1, CountTasks
  <2>8. n.rq.nr_running = Cardinality({q \in Task : new[q] \in Counted})
    BY <2>4, <2>6, <2>7 DEF Placed
  <2>9. ASSUME NEW q \in Task, NEW c \in Counted PROVE q \in n.rq.queued[c] <=> new[q] = c
    BY <2>1, <2>3, <2>4 DEF Placed, Counted
  <2>10. \A q \in Task : Linked(n.rq.ltr, q) <=> new[q] = "lottery"
    BY <2>1, <2>4 DEF Placed, Counted
  <2>11. Placed(n, new)
    <3>1. NoDuplicates(n.rq.ltr.queue)
      BY <2>4 DEF Placed
    <3> QED BY <3>1, <2>8, <2>9, <2>10 DEF Placed
  <2> QED BY <2>4, <2>5, <2>11 DEF n, class
<1> QED BY <1>1, <1>2

\* dequeue_task takes a task off the queue of its class.
LEMMA DequeuePlaced ==
  ASSUME NEW k \in KState, NEW p \in Task, NEW loc \in [Task -> Classes \cup {"none"}],
         Placed(k, loc), loc[p] = k.task[p].sched_class, k.task[p].sched_class \in Classes
  PROVE  LET n == dequeue_task(k, p)
         IN  /\ n \in KState
             /\ n.task = k.task /\ n.fault = k.fault /\ n.rq.curr = k.rq.curr
             /\ Placed(n, [loc EXCEPT ![p] = "none"])
<1> DEFINE class == k.task[p].sched_class
           new == [loc EXCEPT ![p] = "none"]
           n == dequeue_task(k, p)
           held == {q \in Task : loc[q] \in Counted}
<1>1. CASE class = "lottery"
  <2> DEFINE ltr == dequeue_task_lottery(k.rq.ltr, p, Tickets(k))
  <2>1. Tickets(k) \in [Task -> Nat] /\ k.rq.ltr \in ltr_rqType
    BY DEF KState, TaskStruct, Tickets, RunQueue
  <2>2. Linked(k.rq.ltr, p) /\ NoDuplicates(k.rq.ltr.queue)
    BY <1>1 DEF Placed
  <2>3. /\ ltr \in ltr_rqType
        /\ NoDuplicates(ltr.queue)
        /\ \A q : Linked(ltr, q) <=> Linked(k.rq.ltr, q) /\ q # p
    BY <2>1, <2>2, DequeueUnlinks
  <2>4. n = [k EXCEPT !.rq.ltr = ltr]
    BY <1>1, <2>2 DEF dequeue_task, list_del_lottery
  <2> HIDE DEF n, ltr
  <2>5. /\ n.rq.ltr = ltr /\ n.rq.queued = k.rq.queued /\ n.rq.nr_running = k.rq.nr_running
        /\ n.task = k.task /\ n.fault = k.fault /\ n.rq.curr = k.rq.curr
        /\ n \in KState
    BY <2>3, <2>4 DEF KState, RunQueue
  <2>6. {q \in Task : new[q] \in Counted} = held
    BY <1>1 DEF Counted
  <2>7. Placed(n, new)
    BY <1>1, <2>3, <2>5, <2>6 DEF Placed, Counted
  <2> QED BY <2>5, <2>7 DEF n
<1>2. CASE class # "lottery"
  <2>1. class \in Counted
    BY <1>2 DEF Classes
  <2>2. n = [k EXCEPT !.rq.queued[class] = @ \ {p}, !.rq.nr_running = @ - 1]
    BY <1>2 DEF dequeue_task
  <2> HIDE DEF n, class
  <2>3. k.rq.queued \in [Counted -> SUBSET Task] /\ k.rq.nr_running \in Nat
    BY DEF KState, RunQueue, Counted
  <2>4. /\ n.rq.ltr = k.rq.ltr /\ n.rq.nr_running = k.rq.nr_running - 1
        /\ n.rq.queued = [k.rq.queued EXCEPT ![class] = @ \ {p}]
        /\ n.task = k.task /\ n.fault = k.fault /\ n.rq.curr = k.rq.curr
        /\ n.rq.need_resched = k.rq.need_resched
    BY <2>2 DEF KState, RunQueue
  <2>6. {q \in Task : new[q] \in Counted} = held \ {p}
    BY DEF Counted
  <2>7. Cardinality(held \ {p}) = Cardinality(held) - 1 /\ Cardinality(held \ {p}) \in Nat
    <3>1. held \in SUBSET Task /\ held \ {p} \in SUBSET Task /\ p \in held
      BY <2>1 DEF class
    <3> QED BY <3>1, CountTasks
  <2>8. n.rq.nr_running = Cardinality({q \in Task : new[q] \in Counted}) /\ n.rq.nr_running \in Nat
    <3>1. k.rq.nr_running = Cardinality(held)
      BY DEF Placed
    <3> QED BY <3>1, <2>4, <2>6, <2>7
  <2>5. n \in KState
    <3>1. [k.rq.queued EXCEPT ![class] = @ \ {p}] \in [Counted -> SUBSET Task]
      BY <2>1, <2>3
    <3>2. k.rq.nr_running - 1 \in Nat
      BY <2>4, <2>8
    <3> QED BY <3>1, <3>2, <2>2 DEF KState, RunQueue, Counted
  <2>9. ASSUME NEW q \in Task, NEW c \in Counted PROVE q \in n.rq.queued[c] <=> new[q] = c
    BY <2>1, <2>3, <2>4 DEF Placed, Counted, class
  <2>10. \A q \in Task : Linked(n.rq.ltr, q) <=> new[q] = "lottery"
    BY <1>2, <2>1, <2>4 DEF Placed, Counted, class
  <2>11. Placed(n, new)
    <3>1. NoDuplicates(n.rq.ltr.queue)
      BY <2>4 DEF Placed
    <3> QED BY <3>1, <2>8, <2>9, <2>10 DEF Placed
  <2> QED BY <2>4, <2>5, <2>11 DEF n
<1> QED BY <1>1, <1>2

-----------------------------------------------------------------------------
(* The functions of core.c.                                                *)

\* The run queue holds exactly the tasks whose on_rq is set, each on the
\* queue of its class.
Good(k) == k \in KState /\ NoneIdle(k) /\ Placed(k, Place(k))

\* From k to n, the kernel works on p alone and the CPU stays with curr.
WorksOn(k, n, p) ==
    /\ Good(n)
    /\ n.fault = k.fault /\ n.rq.curr = k.rq.curr
    /\ n.task = [k.task EXCEPT ![p] = n.task[p]]

\* What a run queue says does not depend on the rest of the state.
LEMMA PlacedElsewhere ==
  ASSUME NEW k, NEW n, NEW loc, NEW new, Placed(k, loc),
         n.rq.ltr = k.rq.ltr, n.rq.queued = k.rq.queued, n.rq.nr_running = k.rq.nr_running,
         \A p \in Task : new[p] = loc[p]
  PROVE  Placed(n, new)
<1>1. {p \in Task : new[p] \in Counted} = {p \in Task : loc[p] \in Counted}
  OBVIOUS
<1> QED BY <1>1 DEF Placed

LEMMA PlaceType ==
  ASSUME NEW k \in KState, NoneIdle(k)
  PROVE  Place(k) \in [Task -> Classes \cup {"none"}]
BY DEF Place, NoneIdle

\* A task_struct may change as long as its place on the queues does not.
LEMMA GoodUpdate ==
  ASSUME NEW k, Good(k), NEW p \in Task, NEW new \in TaskStruct,
         new.on_rq = k.task[p].on_rq, new.sched_class \in Classes,
         new.on_rq => new.sched_class = k.task[p].sched_class
  PROVE  Good([k EXCEPT !.task[p] = new])
<1> DEFINE n == [k EXCEPT !.task[p] = new]
<1>1. k \in KState
  BY DEF Good
<1>2. n.task = [k.task EXCEPT ![p] = new] /\ n.rq = k.rq /\ n.fault = k.fault
  BY <1>1 DEF KState
<1>3. n \in KState
  BY <1>1 DEF KState
<1>4. k.task \in [Task \cup {Idle} -> TaskStruct]
  BY <1>1 DEF KState
<1> HIDE DEF n
<1>5. NoneIdle(n)
  BY <1>2, <1>4 DEF NoneIdle, Good
<1>6. \A q \in Task : Place(n)[q] = Place(k)[q]
  BY <1>2, <1>4 DEF Place
<1>7. Placed(n, Place(n))
  BY <1>2, <1>6, PlacedElsewhere DEF Good
<1> QED BY <1>3, <1>5, <1>7 DEF Good, n

LEMMA AlikeGood ==
  ASSUME NEW k, Good(k), NEW n, Alike(k, n)
  PROVE  Good(n)
<1>1. NoneIdle(n)
  BY DEF Alike, Good, NoneIdle
<1>2. \A q \in Task : Place(n)[q] = Place(k)[q]
  BY DEF Alike, Place
<1>3. Placed(n, Place(n))
  BY <1>2, PlacedElsewhere DEF Alike, Good
<1> QED BY <1>1, <1>3 DEF Good, Alike

LEMMA ReschedAlike ==
  ASSUME NEW k \in KState
  PROVE  Alike(k, k) /\ Alike(k, resched_curr(k))
<1>1. Alike(k, k)
  BY DEF Alike
<1>2. Alike(k, resched_curr(k))
  BY DEF Alike, resched_curr, KState, RunQueue
<1> QED BY <1>1, <1>2

\* check_preempt_curr, and the notifications of the class, at most ask for a
\* reschedule.
LEMMA PreemptAlike ==
  ASSUME NEW k \in KState, NEW p, NEW preempt
  PROVE  /\ Alike(k, check_preempt_curr(k, p, preempt))
         /\ Alike(k, notify_class(k, p, preempt))
<1>1. Alike(k, check_preempt_curr(k, p, preempt))
  BY ReschedAlike DEF check_preempt_curr
<1>2. Alike(k, notify_class(k, p, preempt))
  BY <1>1, ReschedAlike DEF notify_class
<1> QED BY <1>1, <1>2

\* The tick at most asks for a reschedule.
LEMMA TickAlike ==
  ASSUME NEW k \in KState, NEW should_preempt, NEW preempt
  PROVE  Alike(k, scheduler_tick(k, should_preempt, preempt))
BY ReschedAlike DEF scheduler_tick

\* activate_task of a task that is not on the run queue.
LEMMA ActivateGood ==
  ASSUME NEW k, Good(k), NEW p \in Task, ~ k.task[p].on_rq
  PROVE  LET n == activate_task(k, p)
         IN  WorksOn(k, n, p) /\ n.task[p] = [k.task[p] EXCEPT !.on_rq = TRUE]
<1> DEFINE m == enqueue_task(k, p)
           n == activate_task(k, p)
           class == k.task[p].sched_class
<1>1. k \in KState /\ k.task[p] \in TaskStruct /\ class \in Classes
  BY DEF Good, KState, NoneIdle
<1>2. Place(k) \in [Task -> Classes \cup {"none"}] /\ Place(k)[p] = "none"
  BY PlaceType DEF Good, Place
<1>3. /\ m \in KState
      /\ m.task = k.task /\ m.fault = k.fault /\ m.rq.curr = k.rq.curr
      /\ Placed(m, [Place(k) EXCEPT ![p] = class])
  BY <1>1, <1>2, EnqueuePlaced DEF Good
<1>4. n = [m EXCEPT !.task[p].on_rq = TRUE]
  BY DEF activate_task
<1> HIDE DEF m, n, class
<1>5. /\ n.task = [k.task EXCEPT ![p] = [@ EXCEPT !.on_rq = TRUE]]
      /\ n.rq = m.rq /\ n.fault = k.fault
  BY <1>3, <1>4 DEF KState
<1>6. n \in KState
  <2>1. n.task \in [Task \cup {Idle} -> TaskStruct]
    <3>1. [k.task[p] EXCEPT !.on_rq = TRUE] \in TaskStruct
      BY <1>1 DEF TaskStruct
    <3>2. k.task \in [Task \cup {Idle} -> TaskStruct]
      BY <1>1 DEF KState
    <3> QED BY <3>1, <3>2, <1>5
  <2> QED BY <2>1, <1>3, <1>4 DEF KState
<1>7. k.task \in [Task \cup {Idle} -> TaskStruct] /\ p \in Task \cup {Idle}
  BY <1>1 DEF KState
<1>8. n.task[p] = [k.task[p] EXCEPT !.on_rq = TRUE] /\ n.task = [k.task EXCEPT ![p] = n.task[p]]
  BY <1>5, <1>7
<1>9. /\ n.task[p].on_rq /\ n.task[p].sched_class = class
      /\ \A q \in Task : q # p => n.task[q] = k.task[q]
  BY <1>1, <1>7, <1>8 DEF TaskStruct, class
<1>10. NoneIdle(n)
  BY <1>1, <1>9 DEF NoneIdle, Good
<1>11. \A q \in Task : Place(n)[q] = [Place(k) EXCEPT ![p] = class][q]
  BY <1>2, <1>9 DEF Place
<1>12. Placed(n, Place(n))
  BY <1>3, <1>5, <1>11, PlacedElsewhere
<1> QED BY <1>3, <1>5, <1>6, <1>8, <1>10, <1>12 DEF Good, WorksOn, n

\* deactivate_task of a task that is on the run queue.
LEMMA DeactivateGood ==
  ASSUME NEW k, Good(k), NEW p \in Task, k.task[p].on_rq
  PROVE  LET n == deactivate_task(k, p)
         IN  WorksOn(k, n, p) /\ n.task[p] = [k.task[p] EXCEPT !.on_rq = FALSE]
<1> DEFINE m == [k EXCEPT !.task[p].on_rq = FALSE]
           n == deactivate_task(k, p)
           class == k.task[p].sched_class
<1>1. k \in KState /\ k.task[p] \in TaskStruct /\ class \in Classes
  BY DEF Good, KState, NoneIdle
<1>2. Place(k) \in [Task -> Classes \cup {"none"}] /\ Place(k)[p] = class
  BY PlaceType DEF Good, Place
<1>3. /\ m.task = [k.task EXCEPT ![p] = [@ EXCEPT !.on_rq = FALSE]]
      /\ m.rq = k.rq /\ m.fault = k.fault
  BY <1>1 DEF KState
<1>4. m \in KState
  <2>1. m.task \in [Task \cup {Idle} -> TaskStruct]
    BY <1>1, <1>3 DEF KState, TaskStruct
  <2> QED BY <2>1, <1>1 DEF KState
<1>5. k.task \in [Task \cup {Idle} -> TaskStruct] /\ p \in Task \cup {Idle}
  BY <1>1 DEF KState
<1> HIDE DEF m
<1>6. /\ m.task[p] = [k.task[p] EXCEPT !.on_rq = FALSE] /\ m.task = [k.task EXCEPT ![p] = m.task[p]]
      /\ ~ m.task[p].on_rq /\ m.task[p].sched_class = class
      /\ \A q \in Task : q # p => m.task[q] = k.task[q]
  BY <1>1, <1>3, <1>5 DEF TaskStruct
<1>7. Placed(m, Place(k))
  BY <1>3, PlacedElsewhere DEF Good
<1>8. /\ n \in KState
      /\ n.task = m.task /\ n.fault = m.fault /\ n.rq.curr = m.rq.curr
      /\ Placed(n, [Place(k) EXCEPT ![p] = "none"])
  <2>1. Place(k)[p] = m.task[p].sched_class /\ m.task[p].sched_class \in Classes
    BY <1>1, <1>2, <1>6
  <2>2. n = dequeue_task(m, p)
    BY DEF deactivate_task, m
  <2> QED BY <2>1, <2>2, <1>2, <1>4, <1>7, DequeuePlaced
<1> HIDE DEF n, class
<1>9. NoneIdle(n)
  BY <1>1, <1>6, <1>8 DEF NoneIdle, Good
<1>10. \A q \in Task : Place(n)[q] = [Place(k) EXCEPT ![p] = "none"][q]
  BY <1>2, <1>6, <1>8, ZenonT(60) DEF Place
<1>11. Placed(n, Place(n))
  BY <1>8, <1>10, PlacedElsewhere
<1> QED BY <1>3, <1>6, <1>8, <1>9, <1>11 DEF Good, WorksOn, n

\* Whatever class is asked, the task that gets the CPU is queued, or it is
\* the idle task.
LEMMA PickOnRq ==
  ASSUME NEW k, Good(k), NEW next \in __pick_next_task(k)
  PROVE  next = Idle \/ (next \in Task /\ k.task[next].on_rq)
<1> DEFINE asked == IF all_fair(k) THEN {"fair", "idle"} ELSE {"lottery", "dl", "rt", "fair", "idle"}
           Chosen(c) == /\ ClassPicks(k, c) # {}
                        /\ \A d \in asked : Rank(d) > Rank(c) => ClassPicks(k, d) = {}
           class == CHOOSE c \in asked : Chosen(c)
<1>1. k \in KState /\ NoneIdle(k) /\ Placed(k, Place(k))
  BY DEF Good
<1>2. ClassPicks(k, "idle") = {Idle}
  BY DEF ClassPicks
<1>3. asked = {"fair", "idle"} \/ asked = {"lottery", "dl", "rt", "fair", "idle"}
  OBVIOUS
<1> HIDE DEF asked
<1>4. \E c \in asked : Chosen(c)
  <2>1. CASE asked = {"fair", "idle"}
    BY <1>2, <2>1, Ranks
  <2>2. CASE asked = {"lottery", "dl", "rt", "fair", "idle"}
    BY <1>2, <2>2, Ranks
  <2> QED BY <1>3, <2>1, <2>2
<1>5. class \in {"lottery", "dl", "rt", "fair", "idle"}
  <2>1. class \in asked
    BY <1>4
  <2> QED BY <1>3, <2>1
<1>6. next \in ClassPicks(k, class)
  BY DEF __pick_next_task, asked
<1> HIDE DEF class
<1>7. CASE class = "idle"
  BY <1>2, <1>6, <1>7
<1>8. CASE class = "lottery"
  <2>1. PICK tk, E, random : next = pick_next_task_lottery(k.rq.ltr, tk, E, random) /\ next # NULL
    BY <1>6, <1>8 DEF ClassPicks
  <2>2. next \in Task /\ Linked(k.rq.ltr, next)
    BY <1>1, <2>1, PickIsLinked DEF KState, RunQueue
  <2> QED BY <1>1, <2>2 DEF Placed, Place
<1>9. CASE class \in Counted
  <2>1. next \in k.rq.queued[class] /\ k.rq.queued[class] \in SUBSET Task
    BY <1>1, <1>6, <1>9 DEF ClassPicks, KState, RunQueue, Counted
  <2>2. Place(k)[next] = class
    BY <1>1, <1>9, <2>1 DEF Placed
  <2> QED BY <1>9, <2>1, <2>2 DEF Place, Counted
<1> QED BY <1>5, <1>7, <1>8, <1>9 DEF Counted

\* What becomes of prev: it stays as it is, a signal keeps it awake, or it is
\* taken off the queue.
LEMMA SleepGood ==
  ASSUME NEW k, Good(k), NEW mode, NEW signal \in BOOLEAN,
         mode = "SM_PREEMPT" \/ (k.rq.curr \in Task /\ k.task[k.rq.curr].on_rq)
  PROVE  LET prev == k.rq.curr
             m == put_to_sleep(k, mode, signal)
         IN  /\ Good(m) /\ m.fault = k.fault
             /\ \/ m.task = k.task /\ (mode = "SM_PREEMPT" \/ k.task[prev].state = "RUNNING")
                \/ /\ mode # "SM_PREEMPT"
                   /\ k.task[prev].state = "INTERRUPTIBLE"
                   /\ m.task = [k.task EXCEPT ![prev] = [@ EXCEPT !.state = "RUNNING"]]
                \/ /\ mode # "SM_PREEMPT"
                   /\ k.task[prev].state # "RUNNING"
                   /\ m.task = [k.task EXCEPT ![prev] = [@ EXCEPT !.on_rq = FALSE]]
<1> DEFINE prev == k.rq.curr
           m == put_to_sleep(k, mode, signal)
<1>0. k \in KState /\ k.task \in [Task \cup {Idle} -> TaskStruct]
  BY DEF Good, KState
<1>1. CASE mode = "SM_PREEMPT" \/ k.task[prev].state = "RUNNING"
  BY <1>1 DEF put_to_sleep
<1>2. CASE ~ (mode = "SM_PREEMPT" \/ k.task[prev].state = "RUNNING")
  <2>1. prev \in Task /\ k.task[prev] \in TaskStruct /\ k.task[prev].on_rq
    BY <1>0, <1>2
  <2>2. CASE signal /\ k.task[prev].state = "INTERRUPTIBLE"
    <3> DEFINE new == [k.task[prev] EXCEPT !.state = "RUNNING"]
    <3>1. new \in TaskStruct /\ new.on_rq = k.task[prev].on_rq
          /\ new.sched_class = k.task[prev].sched_class /\ new.sched_class \in Classes
      BY <2>1 DEF TaskStruct, TaskState, Good, NoneIdle
    <3>2. m = [k EXCEPT !.task[prev].state = "RUNNING"]
      BY <1>2, <2>2 DEF put_to_sleep
    <3>3. m = [k EXCEPT !.task[prev] = new] /\ m.fault = k.fault
          /\ m.task = [k.task EXCEPT ![prev] = new]
      BY <1>0, <3>2 DEF KState
    <3>4. Good(m)
      <4> HIDE DEF new, m, prev
      <4> QED BY <2>1, <3>1, <3>3, GoodUpdate
    <3> QED BY <1>2, <2>2, <3>3, <3>4
  <2>3. CASE ~ (signal /\ k.task[prev].state = "INTERRUPTIBLE")
    <3>1. m = deactivate_task(k, prev)
      BY <1>2, <2>3 DEF put_to_sleep
    <3>2. WorksOn(k, m, prev) /\ m.task[prev] = [k.task[prev] EXCEPT !.on_rq = FALSE]
      <4> HIDE DEF m, prev
      <4> QED BY <2>1, <3>1, DeactivateGood
    <3> HIDE DEF m
    <3> QED BY <1>2, <3>2 DEF WorksOn, m
  <2> QED BY <2>2, <2>3
<1> QED BY <1>1, <1>2

\* __schedule puts a task that blocks or exits to sleep, keeps the others as
\* they are, and gives the CPU to a task that is queued.
LEMMA ScheduleGood ==
  ASSUME NEW k, Good(k), NEW mode, NEW n \in __schedule(k, mode),
         mode = "SM_PREEMPT" \/ (k.rq.curr \in Task /\ k.task[k.rq.curr].on_rq)
  PROVE  LET prev == k.rq.curr
         IN  /\ Good(n) /\ n.fault = k.fault
             /\ n.rq.curr \in Task => n.task[n.rq.curr].on_rq
             /\ \/ n.task = k.task /\ (mode = "SM_PREEMPT" \/ k.task[prev].state = "RUNNING")
                \/ /\ mode # "SM_PREEMPT"
                   /\ k.task[prev].state = "INTERRUPTIBLE"
                   /\ n.task = [k.task EXCEPT ![prev] = [@ EXCEPT !.state = "RUNNING"]]
                \/ /\ mode # "SM_PREEMPT"
                   /\ k.task[prev].state # "RUNNING"
                   /\ n.task = [k.task EXCEPT ![prev] = [@ EXCEPT !.on_rq = FALSE]]
<1> DEFINE prev == k.rq.curr
<1>1. PICK signal \in BOOLEAN : \E next \in __pick_next_task(put_to_sleep(k, mode, signal)) :
           n = [put_to_sleep(k, mode, signal) EXCEPT !.rq.curr = next, !.rq.need_resched = FALSE]
  BY DEF __schedule
<1> DEFINE m == put_to_sleep(k, mode, signal)
<1>2. PICK next \in __pick_next_task(m) :
           n = [m EXCEPT !.rq.curr = next, !.rq.need_resched = FALSE]
  BY <1>1
<1>3. k \in KState /\ k.task \in [Task \cup {Idle} -> TaskStruct]
  BY DEF Good, KState
<1>4. /\ Good(m) /\ m.fault = k.fault
      /\ \/ m.task = k.task /\ (mode = "SM_PREEMPT" \/ k.task[prev].state = "RUNNING")
         \/ /\ mode # "SM_PREEMPT"
            /\ k.task[prev].state = "INTERRUPTIBLE"
            /\ m.task = [k.task EXCEPT ![prev] = [@ EXCEPT !.state = "RUNNING"]]
         \/ /\ mode # "SM_PREEMPT"
            /\ k.task[prev].state # "RUNNING"
            /\ m.task = [k.task EXCEPT ![prev] = [@ EXCEPT !.on_rq = FALSE]]
  BY SleepGood
<1>5. next = Idle \/ (next \in Task /\ m.task[next].on_rq)
  <2> HIDE DEF m
  <2> QED BY <1>2, <1>4, PickOnRq
<1> HIDE DEF m
<1>6. m \in KState
  BY <1>4 DEF Good
<1>7. /\ n \in KState /\ n.task = m.task /\ n.fault = m.fault /\ n.rq.curr = next
      /\ n.rq.ltr = m.rq.ltr /\ n.rq.queued = m.rq.queued /\ n.rq.nr_running = m.rq.nr_running
  <2>1. next \in Task \cup {Idle}
    BY <1>5
  <2> QED BY <1>2, <1>6, <2>1 DEF KState, RunQueue
<1>8. Good(n)
  <2>1. NoneIdle(n)
    BY <1>4, <1>7 DEF NoneIdle, Good
  <2>2. \A q \in Task : Place(n)[q] = Place(m)[q]
    BY <1>7 DEF Place
  <2>3. Placed(n, Place(n))
    BY <1>4, <1>7, <2>2, PlacedElsewhere DEF Good
  <2> QED BY <1>7, <2>1, <2>3 DEF Good
<1>9. n.rq.curr \in Task => n.task[n.rq.curr].on_rq
  BY <1>5, <1>7, IdleAssumption
<1> QED BY <1>4, <1>7, <1>8, <1>9

\* A task_struct set by an operation, after which only need_resched changes.
LEMMA WorksOnAlike ==
  ASSUME NEW k, NEW m, NEW n, NEW p, WorksOn(k, m, p), Alike(m, n)
  PROVE  WorksOn(k, n, p)
BY AlikeGood DEF WorksOn, Alike

\* A wake-up makes a sleeper runnable, queues it, and does nothing to others.
LEMMA WakeUpGood ==
  ASSUME NEW k, Good(k), NEW p \in Task, NEW preempt,
         k.rq.curr = p => k.task[p].on_rq
  PROVE  LET n == try_to_wake_up(k, p, preempt)
         IN  IF k.task[p].state = "INTERRUPTIBLE"
             THEN WorksOn(k, n, p)
                  /\ n.task[p] = [k.task[p] EXCEPT !.state = "RUNNING", !.on_rq = TRUE]
             ELSE n = k
<1> DEFINE n == try_to_wake_up(k, p, preempt)
           new == [k.task[p] EXCEPT !.state = "RUNNING", !.on_rq = TRUE]
<1>1. k \in KState /\ k.task \in [Task \cup {Idle} -> TaskStruct] /\ k.task[p] \in TaskStruct
      /\ k.task[p].sched_class \in Classes
  BY DEF Good, KState, NoneIdle
<1>2. CASE k.task[p].state # "INTERRUPTIBLE"
  BY <1>2 DEF try_to_wake_up, ttwu_state_match
<1>3. CASE k.task[p].state = "INTERRUPTIBLE"
  <2>1. ASSUME NEW m, WorksOn(k, m, p), m.task[p].on_rq, m.task[p] \in TaskStruct,
               m.task[p] = [k.task[p] EXCEPT !.on_rq = TRUE]
        PROVE  LET r == ttwu_do_wakeup(m, p, preempt)
               IN  WorksOn(k, r, p) /\ r.task[p] = new
    <3> DEFINE c == check_preempt_curr(m, p, preempt)
               r == ttwu_do_wakeup(m, p, preempt)
    <3>1. Good(m) /\ m \in KState
      BY <2>1 DEF WorksOn, Good
    <3>2. Alike(m, c)
      BY <3>1, PreemptAlike
    <3>3. Good(c) /\ c.task = m.task /\ c.fault = m.fault /\ c.rq.curr = m.rq.curr
      BY <3>1, <3>2, AlikeGood DEF Alike
    <3>4. r = [c EXCEPT !.task[p].state = "RUNNING"]
      BY DEF ttwu_do_wakeup
    <3> HIDE DEF c, r
    <3> DEFINE awake == [c.task[p] EXCEPT !.state = "RUNNING"]
    <3>5. awake = new
      BY <1>1, <2>1, <3>3 DEF TaskStruct
    <3>6. r = [c EXCEPT !.task[p] = new]
      BY <3>4, <3>5, <3>3 DEF Good, KState
    <3>7. new \in TaskStruct /\ new.on_rq /\ new.sched_class = k.task[p].sched_class
      BY <1>1 DEF TaskStruct, TaskState
    <3>8. c.task[p].on_rq /\ c.task[p].sched_class = k.task[p].sched_class
      BY <1>1, <2>1, <3>3 DEF TaskStruct
    <3> HIDE DEF new
    <3>9. new.on_rq = c.task[p].on_rq
      BY <3>3, <3>7, <3>8 DEF Good, KState, TaskStruct
    <3>10. Good(r)
      BY <1>1, <3>3, <3>6, <3>7, <3>8, <3>9, GoodUpdate
    <3>11. r.fault = c.fault /\ r.rq = c.rq /\ r.task = [c.task EXCEPT ![p] = new]
      BY <3>6, <3>3 DEF Good, KState
    <3>12. c.task \in [Task \cup {Idle} -> TaskStruct] /\ p \in Task \cup {Idle}
      BY <3>3 DEF Good, KState
    <3>13. r.task[p] = new
      BY <3>11, <3>12
    <3>14. r.task = [k.task EXCEPT ![p] = r.task[p]]
      BY <1>1, <2>1, <3>3, <3>11, <3>12, <3>13 DEF WorksOn
    <3> QED BY <2>1, <3>3, <3>10, <3>11, <3>13, <3>14 DEF WorksOn, r
  <2>2. ASSUME k.task[p].on_rq PROVE /\ WorksOn(k, k, p)
                                     /\ k.task[p] = [k.task[p] EXCEPT !.on_rq = TRUE]
    <3>1. k.task = [k.task EXCEPT ![p] = k.task[p]]
      BY <1>1
    <3>2. k.task[p] = [k.task[p] EXCEPT !.on_rq = TRUE]
      BY <1>1, <2>2 DEF TaskStruct
    <3> QED BY <3>1, <3>2 DEF WorksOn
  <2>3. CASE p = k.rq.curr
    <3>1. n = [k EXCEPT !.task[p].state = "RUNNING"] /\ k.task[p].on_rq
      BY <1>3, <2>3 DEF try_to_wake_up, ttwu_state_match
    <3>2. new = [k.task[p] EXCEPT !.state = "RUNNING"] /\ new \in TaskStruct
          /\ new.on_rq = k.task[p].on_rq /\ new.sched_class = k.task[p].sched_class
      BY <1>1, <3>1 DEF TaskStruct, TaskState
    <3>3. n = [k EXCEPT !.task[p] = new]
      BY <1>1, <3>1, <3>2 DEF KState
    <3> HIDE DEF new, n
    <3>4. Good(n)
      BY <1>1, <3>2, <3>3, GoodUpdate
    <3>5. n.fault = k.fault /\ n.rq = k.rq /\ n.task = [k.task EXCEPT ![p] = new]
      BY <1>1, <3>3 DEF KState
    <3>6. n.task[p] = new
      BY <1>1, <3>5
    <3> QED BY <1>3, <3>4, <3>5, <3>6 DEF WorksOn, n, new
  <2>4. CASE p # k.rq.curr /\ k.task[p].on_rq
    <3>1. n = ttwu_do_wakeup(k, p, preempt)
      BY <1>3, <2>4 DEF try_to_wake_up, ttwu_state_match
    <3> HIDE DEF n
    <3> QED BY <1>1, <1>3, <2>1, <2>2, <2>4, <3>1 DEF n
  <2>5. CASE p # k.rq.curr /\ ~ k.task[p].on_rq
    <3> DEFINE m == activate_task(k, p)
    <3>1. n = ttwu_do_wakeup(m, p, preempt)
      BY <1>3, <2>5 DEF try_to_wake_up, ttwu_do_activate, ttwu_state_match
    <3>2. WorksOn(k, m, p) /\ m.task[p] = [k.task[p] EXCEPT !.on_rq = TRUE]
      BY <2>5, ActivateGood
    <3>3. m.task[p] \in TaskStruct /\ m.task[p].on_rq
      BY <1>1, <3>2 DEF TaskStruct
    <3> HIDE DEF n, m
    <3> QED BY <1>3, <2>1, <3>1, <3>2, <3>3 DEF n
  <2> QED BY <2>3, <2>4, <2>5
<1> QED BY <1>2, <1>3

\* The first wake-up of a child queues it.
LEMMA WakeNewGood ==
  ASSUME NEW k, Good(k), NEW p \in Task, NEW preempt, ~ k.task[p].on_rq
  PROVE  LET n == wake_up_new_task(k, p, preempt)
         IN  /\ WorksOn(k, n, p)
             /\ n.task[p] = [k.task[p] EXCEPT !.state = "RUNNING", !.on_rq = TRUE]
<1> DEFINE new == [k.task[p] EXCEPT !.state = "RUNNING"]
           j == [k EXCEPT !.task[p].state = "RUNNING"]
           m == activate_task(j, p)
           n == check_preempt_curr(m, p, preempt)
<1>1. k \in KState /\ k.task \in [Task \cup {Idle} -> TaskStruct] /\ k.task[p] \in TaskStruct
      /\ k.task[p].sched_class \in Classes
  BY DEF Good, KState, NoneIdle
<1>2. new \in TaskStruct /\ new.on_rq = k.task[p].on_rq /\ new.sched_class = k.task[p].sched_class
  BY <1>1 DEF TaskStruct, TaskState
<1>3. j = [k EXCEPT !.task[p] = new] /\ j.task = [k.task EXCEPT ![p] = new]
      /\ j.rq = k.rq /\ j.fault = k.fault
  BY <1>1 DEF KState
<1> HIDE DEF j
<1>4. Good(j)
  <2> HIDE DEF new
  <2> QED BY <1>1, <1>2, <1>3, GoodUpdate
<1>5. j.task[p] = new /\ ~ j.task[p].on_rq
  BY <1>1, <1>2, <1>3
<1>6. WorksOn(j, m, p) /\ m.task[p] = [new EXCEPT !.on_rq = TRUE]
  <2> HIDE DEF new, n
  <2> QED BY <1>4, <1>5, ActivateGood
<1> HIDE DEF m
<1>7. m \in KState /\ Alike(m, n)
  BY <1>6, PreemptAlike DEF WorksOn, Good
<1> HIDE DEF n
<1>8. WorksOn(j, n, p) /\ n.task = m.task
  BY <1>6, <1>7, WorksOnAlike DEF Alike
<1>9. n.task[p] = [k.task[p] EXCEPT !.state = "RUNNING", !.on_rq = TRUE]
  BY <1>1, <1>6, <1>8 DEF TaskStruct
<1>10. WorksOn(k, n, p)
  BY <1>1, <1>3, <1>8 DEF WorksOn
<1>11. n = wake_up_new_task(k, p, preempt)
  BY DEF wake_up_new_task, n, m, j
<1> QED BY <1>9, <1>10, <1>11

\* dequeue_task, a change of the task, enqueue_task: the bracket around every
\* change of a task's parameters.
Requeued(k, p, new) ==
    LET out == IF k.task[p].on_rq THEN dequeue_task(k, p) ELSE k
        mid == [out EXCEPT !.task[p] = new]
    IN  IF k.task[p].on_rq THEN enqueue_task(mid, p) ELSE mid

LEMMA RequeueGood ==
  ASSUME NEW k, Good(k), NEW p \in Task, NEW new \in TaskStruct,
         new.on_rq = k.task[p].on_rq, new.sched_class \in Classes
  PROVE  WorksOn(k, Requeued(k, p, new), p) /\ Requeued(k, p, new).task[p] = new
<1> DEFINE class == k.task[p].sched_class
           mid == [dequeue_task(k, p) EXCEPT !.task[p] = new]
           n == Requeued(k, p, new)
<1>1. k \in KState /\ k.task \in [Task \cup {Idle} -> TaskStruct] /\ k.task[p] \in TaskStruct
      /\ class \in Classes
  BY DEF Good, KState, NoneIdle
<1>2. CASE ~ k.task[p].on_rq
  <2>1. n = [k EXCEPT !.task[p] = new]
    BY <1>2 DEF Requeued
  <2> HIDE DEF n
  <2>2. Good(n)
    BY <1>1, <1>2, <2>1, GoodUpdate DEF TaskStruct
  <2>3. n.fault = k.fault /\ n.rq = k.rq /\ n.task = [k.task EXCEPT ![p] = new]
    BY <1>1, <2>1 DEF KState
  <2>4. n.task[p] = new
    BY <1>1, <2>3
  <2> QED BY <2>2, <2>3, <2>4 DEF WorksOn, n
<1>3. CASE k.task[p].on_rq
  <2> DEFINE out == dequeue_task(k, p)
             loc == [Place(k) EXCEPT ![p] = "none"]
  <2>1. Place(k) \in [Task -> Classes \cup {"none"}] /\ Place(k)[p] = class
    BY <1>1, <1>3, PlaceType DEF Good, Place
  <2>2. /\ out \in KState
        /\ out.task = k.task /\ out.fault = k.fault /\ out.rq.curr = k.rq.curr
        /\ Placed(out, loc)
    BY <1>1, <2>1, DequeuePlaced DEF Good
  <2>3. n = enqueue_task(mid, p)
    BY <1>3 DEF Requeued
  <2>4. mid = [out EXCEPT !.task[p] = new]
    OBVIOUS
  <2> HIDE DEF n, mid, out
  <2>5. /\ mid \in KState /\ mid.task = [k.task EXCEPT ![p] = new]
        /\ mid.rq = out.rq /\ mid.fault = k.fault
    BY <2>2, <2>4 DEF KState
  <2>6. mid.task[p] = new /\ Placed(mid, loc)
    <3>1. Placed(mid, loc)
      BY <2>2, <2>5, PlacedElsewhere
    <3>2. mid.task[p] = new
      BY <1>1, <2>5
    <3> QED BY <3>1, <3>2
  <2>7. loc \in [Task -> Classes \cup {"none"}] /\ loc[p] = "none"
    BY <2>1
  <2>8. /\ n \in KState
        /\ n.task = mid.task /\ n.fault = mid.fault /\ n.rq.curr = mid.rq.curr
        /\ Placed(n, [loc EXCEPT ![p] = new.sched_class])
    <3> HIDE DEF loc
    <3> QED BY <2>3, <2>5, <2>6, <2>7, EnqueuePlaced
  <2>9. new.on_rq
    BY <1>1, <1>3 DEF TaskStruct
  <2>10. NoneIdle(n)
    BY <1>1, <2>5, <2>8 DEF NoneIdle, Good
  <2>11. \A q \in Task : Place(n)[q] = [loc EXCEPT ![p] = new.sched_class][q]
    BY <1>1, <2>1, <2>5, <2>8, <2>9 DEF Place
  <2>12. Placed(n, Place(n))
    <3> HIDE DEF loc
    <3> QED BY <2>8, <2>11, PlacedElsewhere, ZenonT(60)
  <2> QED BY <2>2, <2>5, <2>6, <2>8, <2>10, <2>12 DEF Good, WorksOn, n
<1> QED BY <1>2, <1>3

-----------------------------------------------------------------------------
(* Priorities and policies.                                                *)

LEMMA NormalPrioType ==
  ASSUME NEW policy, NEW priority \in Int, NEW nice \in Int
  PROVE  __normal_prio(policy, priority, nice) \in Int
BY DEF __normal_prio, MAX_DL_PRIO, MAX_RT_PRIO, NICE_TO_PRIO, DEFAULT_PRIO

\* The parameters of a task_struct are integers.
LEMMA TaskPrioType ==
  ASSUME NEW p \in TaskStruct
  PROVE  /\ normal_prio(p) \in Int
         /\ PRIO_TO_NICE(p.static_prio) \in Int
<1>1. p.static_prio \in Int /\ p.rt_priority \in Int
  BY DEF TaskStruct, MAX_RT_PRIO
<1>2. PRIO_TO_NICE(p.static_prio) \in Int
  BY <1>1 DEF PRIO_TO_NICE, DEFAULT_PRIO
<1> QED BY <1>1, <1>2, NormalPrioType DEF normal_prio

\* A change of policy that passed the checks leaves the task alone, or makes
\* it a lottery task: no other class is ever switched to.
LEMMA ChangeIs ==
  ASSUME NEW k, Good(k), NEW p \in Task, NEW policy \in Policy, ltr_policy(policy),
         NEW attr \in RequestType, NEW preempt
  PROVE  LET n == change(k, p, policy, attr, preempt)
             old == k.task[p]
         IN  \E new \in TaskStruct :
                /\ new.state = old.state /\ new.on_rq = old.on_rq /\ new.tickets = old.tickets
                /\ new.sched_class \in Classes
                /\ \/ new = old
                   \/ new.policy = policy /\ new.sched_class = "lottery"
                /\ \/ n = Requeued(k, p, new)
                   \/ n = notify_class(Requeued(k, p, new), p, preempt)
<1> DEFINE old == k.task[p]
           newprio == __normal_prio(policy, attr.priority, attr.nice)
           params == __setscheduler_params(old, policy, attr)
           new == IF attr.keep THEN old ELSE __setscheduler_prio(params, newprio)
           in == Requeued(k, p, new)
           n == change(k, p, policy, attr, preempt)
<1>1. k \in KState /\ old \in TaskStruct /\ old.sched_class \in Classes
  BY DEF Good, KState, NoneIdle
<1>2. attr.priority \in 0 .. MAX_RT_PRIO /\ attr.priority \in Int /\ attr.nice \in Int
      /\ attr.keep \in BOOLEAN
  BY DEF RequestType, MAX_RT_PRIO
<1>3. newprio \in Int
  BY <1>2, NormalPrioType
<1> HIDE DEF newprio
<1>4. params \in TaskStruct /\ params.policy = policy
      /\ params.state = old.state /\ params.on_rq = old.on_rq /\ params.tickets = old.tickets
  <2> DEFINE q == [old EXCEPT !.policy = policy,
                       !.static_prio = IF fair_policy(policy) THEN NICE_TO_PRIO(attr.nice) ELSE @,
                       !.rt_priority = attr.priority]
  <2>1. q \in TaskStruct /\ q.policy = policy /\ q.state = old.state /\ q.on_rq = old.on_rq
        /\ q.tickets = old.tickets
    <3>1. NICE_TO_PRIO(attr.nice) \in Int
      BY <1>2 DEF NICE_TO_PRIO, DEFAULT_PRIO
    <3> HIDE DEF old
    <3> QED BY <1>1, <1>2, <3>1 DEF TaskStruct
  <2>2. params = [q EXCEPT !.normal_prio = normal_prio(q)]
    BY DEF __setscheduler_params
  <2> HIDE DEF q, params
  <2> QED BY <2>1, <2>2, TaskPrioType DEF TaskStruct
<1>5. /\ new \in TaskStruct
      /\ new.state = old.state /\ new.on_rq = old.on_rq /\ new.tickets = old.tickets
      /\ new.sched_class \in Classes
      /\ \/ new = old
         \/ new.policy = policy /\ new.sched_class = "lottery"
  <2>1. CASE attr.keep
    BY <1>1, <2>1
  <2>2. CASE ~ attr.keep
    <3>1. new = [params EXCEPT !.sched_class = class_of(params.policy, newprio), !.prio = newprio]
      BY <2>2 DEF __setscheduler_prio
    <3>2. class_of(params.policy, newprio) = "lottery"
      BY <1>4 DEF class_of
    <3> HIDE DEF new, params, old
    <3> QED BY <1>3, <1>4, <3>1, <3>2 DEF TaskStruct, Classes
  <2> QED BY <2>1, <2>2
<1> HIDE DEF new
<1>6. n = check_class_changed(in, p, old.sched_class, old.prio, preempt)
  BY DEF change, new, Requeued, params, newprio
<1>7. in.task[p] = new
  BY <1>1, <1>5, RequeueGood
<1> HIDE DEF in, n, old
<1>8. n = in \/ n = notify_class(in, p, preempt)
  <2>1. old.sched_class # new.sched_class => old.sched_class # "lottery"
    BY <1>5
  <2> QED BY <1>6, <1>7, <2>1 DEF check_class_changed, switched_from
<1> QED BY <1>5, <1>8 DEF n, old, in

LEMMA ChangeGood ==
  ASSUME NEW k, Good(k), NEW p \in Task, NEW policy \in Policy, ltr_policy(policy),
         NEW attr \in RequestType, NEW preempt
  PROVE  LET n == change(k, p, policy, attr, preempt)
             old == k.task[p]
             new == n.task[p]
         IN  /\ WorksOn(k, n, p)
             /\ new.state = old.state /\ new.on_rq = old.on_rq /\ new.tickets = old.tickets
             /\ \/ new.policy = old.policy /\ new.sched_class = old.sched_class
                \/ new.policy = policy /\ new.sched_class = "lottery"
<1> DEFINE n == change(k, p, policy, attr, preempt)
           old == k.task[p]
<1>1. PICK new \in TaskStruct :
         /\ new.state = old.state /\ new.on_rq = old.on_rq /\ new.tickets = old.tickets
         /\ new.sched_class \in Classes
         /\ \/ new = old
            \/ new.policy = policy /\ new.sched_class = "lottery"
         /\ \/ n = Requeued(k, p, new)
            \/ n = notify_class(Requeued(k, p, new), p, preempt)
  BY ChangeIs
<1> DEFINE in == Requeued(k, p, new)
<1>2. WorksOn(k, in, p) /\ in.task[p] = new
  BY <1>1, RequeueGood
<1> HIDE DEF in, n
<1>3. Alike(in, n)
  <2>1. in \in KState
    BY <1>2 DEF WorksOn, Good
  <2> QED BY <1>1, <2>1, PreemptAlike, ReschedAlike DEF in
<1>4. WorksOn(k, n, p) /\ n.task[p] = new
  BY <1>2, <1>3, WorksOnAlike DEF Alike
<1> QED BY <1>1, <1>4 DEF n

\* A nice value changes priorities only.
LEMMA NiceIs ==
  ASSUME NEW k, Good(k), NEW p \in Task, NEW nice \in Int, NEW preempt
  PROVE  LET n == set_user_nice(k, p, nice, preempt)
             old == k.task[p]
         IN  \E new \in TaskStruct :
                /\ new.state = old.state /\ new.on_rq = old.on_rq /\ new.tickets = old.tickets
                /\ new.policy = old.policy /\ new.sched_class = old.sched_class
                /\ \/ n = [k EXCEPT !.task[p] = new]
                   \/ n = notify_class(Requeued(k, p, new), p, preempt)
<1> DEFINE old == k.task[p]
           reniced == [old EXCEPT !.static_prio = NICE_TO_PRIO(nice)]
           new == effective_prio(reniced)
           n == set_user_nice(k, p, nice, preempt)
<1>1. old \in TaskStruct
  BY DEF Good, KState
<1>2. NICE_TO_PRIO(nice) \in Int
  BY DEF NICE_TO_PRIO, DEFAULT_PRIO
<1>3. /\ reniced \in TaskStruct
      /\ reniced.state = old.state /\ reniced.on_rq = old.on_rq /\ reniced.tickets = old.tickets
      /\ reniced.policy = old.policy /\ reniced.sched_class = old.sched_class
  <2> HIDE DEF old
  <2> QED BY <1>1, <1>2 DEF TaskStruct
<1>4. /\ new \in TaskStruct
      /\ new.state = old.state /\ new.on_rq = old.on_rq /\ new.tickets = old.tickets
      /\ new.policy = old.policy /\ new.sched_class = old.sched_class
  <2> HIDE DEF reniced, old
  <2>1. normal_prio(reniced) \in Int /\ reniced.prio \in Int
    BY <1>3, TaskPrioType DEF TaskStruct
  <2> QED BY <1>3, <2>1 DEF effective_prio, TaskStruct
<1>5. CASE dl_policy(old.policy) \/ rt_policy(old.policy)
  <2>1. n = [k EXCEPT !.task[p] = reniced]
    BY <1>5 DEF set_user_nice
  <2> HIDE DEF reniced
  <2> QED BY <1>3, <2>1
<1>6. CASE ~ (dl_policy(old.policy) \/ rt_policy(old.policy))
  <2>1. n = notify_class(Requeued(k, p, new), p, preempt)
    BY <1>6 DEF set_user_nice, Requeued
  <2> HIDE DEF new
  <2> QED BY <1>4, <2>1
<1> QED BY <1>5, <1>6

LEMMA NiceGood ==
  ASSUME NEW k, Good(k), NEW p \in Task, NEW nice \in Int, NEW preempt
  PROVE  LET n == set_user_nice(k, p, nice, preempt)
             old == k.task[p]
             new == n.task[p]
         IN  /\ WorksOn(k, n, p)
             /\ new.state = old.state /\ new.on_rq = old.on_rq /\ new.tickets = old.tickets
             /\ new.policy = old.policy /\ new.sched_class = old.sched_class
<1> DEFINE n == set_user_nice(k, p, nice, preempt)
           old == k.task[p]
<1>1. PICK new \in TaskStruct :
         /\ new.state = old.state /\ new.on_rq = old.on_rq /\ new.tickets = old.tickets
         /\ new.policy = old.policy /\ new.sched_class = old.sched_class
         /\ \/ n = [k EXCEPT !.task[p] = new]
            \/ n = notify_class(Requeued(k, p, new), p, preempt)
  BY NiceIs
<1>2. k \in KState /\ k.task \in [Task \cup {Idle} -> TaskStruct] /\ new.sched_class \in Classes
  BY <1>1 DEF Good, KState, NoneIdle
<1> HIDE DEF n
<1>3. CASE n = [k EXCEPT !.task[p] = new]
  <2>1. Good(n)
    BY <1>1, <1>2, <1>3, GoodUpdate
  <2>2. n.fault = k.fault /\ n.rq = k.rq /\ n.task = [k.task EXCEPT ![p] = new]
    BY <1>2, <1>3 DEF KState
  <2>3. n.task[p] = new
    BY <1>2, <2>2
  <2> QED BY <1>1, <2>1, <2>2, <2>3 DEF WorksOn, n
<1>4. CASE n = notify_class(Requeued(k, p, new), p, preempt)
  <2> DEFINE in == Requeued(k, p, new)
  <2>1. WorksOn(k, in, p) /\ in.task[p] = new
    BY <1>1, <1>2, RequeueGood
  <2> HIDE DEF in
  <2>2. Alike(in, n)
    <3>1. in \in KState
      BY <2>1 DEF WorksOn, Good
    <3> QED BY <1>4, <3>1, PreemptAlike DEF in
  <2>3. WorksOn(k, n, p) /\ n.task[p] = new
    BY <2>1, <2>2, WorksOnAlike DEF Alike
  <2> QED BY <1>1, <2>3 DEF n
<1> QED BY <1>1, <1>3, <1>4

\* A child has the class its policy asks for.
LEMMA ForkClass ==
  ASSUME NEW p \in TaskStruct, NEW curr \in TaskStruct
  PROVE  LET child == sched_fork(p, curr)
         IN  /\ child \in TaskStruct
             /\ child.state = "NEW" /\ ~ child.on_rq /\ child.tickets = p.tickets
             /\ child.sched_class \in Classes
             /\ ltr_policy(child.policy) <=> child.sched_class = "lottery"
<1> DEFINE reset == [p EXCEPT !.policy = "NORMAL", !.static_prio = NICE_TO_PRIO(0), !.rt_priority = 0]
           default == IF dl_policy(p.policy) \/ rt_policy(p.policy) THEN reset
                      ELSE IF PRIO_TO_NICE(p.static_prio) < 0 THEN [p EXCEPT !.static_prio = NICE_TO_PRIO(0)]
                      ELSE p
           child == IF p.sched_reset_on_fork
                    THEN [default EXCEPT !.prio = default.static_prio,
                                         !.normal_prio = default.static_prio,
                                         !.sched_reset_on_fork = FALSE]
                    ELSE [p EXCEPT !.prio = curr.normal_prio]
           class == class_of(child.policy, child.prio)
<1>1. NICE_TO_PRIO(0) \in Int /\ "NORMAL" \in Policy /\ 0 \in 0 .. MAX_RT_PRIO
  BY DEF NICE_TO_PRIO, DEFAULT_PRIO, Policy, MAX_RT_PRIO
<1>2. default \in TaskStruct /\ default.tickets = p.tickets
  <2>1. reset \in TaskStruct /\ reset.tickets = p.tickets
    BY <1>1 DEF TaskStruct
  <2>2. /\ [p EXCEPT !.static_prio = NICE_TO_PRIO(0)] \in TaskStruct
        /\ [p EXCEPT !.static_prio = NICE_TO_PRIO(0)].tickets = p.tickets
    BY <1>1 DEF TaskStruct
  <2> HIDE DEF reset
  <2> QED BY <2>1, <2>2
<1> HIDE DEF default
<1>3. child \in TaskStruct /\ child.tickets = p.tickets
  <2> DEFINE parted == [default EXCEPT !.prio = default.static_prio,
                                       !.normal_prio = default.static_prio,
                                       !.sched_reset_on_fork = FALSE]
  <2>1. parted \in TaskStruct /\ parted.tickets = p.tickets
    BY <1>2 DEF TaskStruct
  <2>2. /\ [p EXCEPT !.prio = curr.normal_prio] \in TaskStruct
        /\ [p EXCEPT !.prio = curr.normal_prio].tickets = p.tickets
    BY DEF TaskStruct
  <2> QED BY <2>1, <2>2
<1>4. sched_fork(p, curr) = [[child EXCEPT !.on_rq = FALSE] EXCEPT !.state = "NEW", !.sched_class = class]
  BY DEF sched_fork, __sched_fork, default
<1> HIDE DEF child
<1>5. class \in Classes /\ (ltr_policy(child.policy) <=> class = "lottery")
  BY DEF class_of, Classes, Counted
<1> HIDE DEF class
<1> QED BY <1>3, <1>4, <1>5 DEF TaskStruct, TaskState, Classes, Counted

\* What passes the checks of __sched_setscheduler is a request for the
\* lottery policy.
LEMMA RecheckLottery ==
  ASSUME NEW p \in TaskStruct, NEW policy \in Policy \cup {SETPARAM_POLICY}, NEW attr \in RequestType
  PROVE  LET r == recheck(p, policy, attr)
         IN  /\ r.policy \in Policy
             /\ r.oldpolicy \in Policy \cup {SETPARAM_POLICY}
             /\ r.reset_on_fork \in BOOLEAN
             /\ r.allowed => ltr_policy(r.policy)
BY DEF recheck, attr_valid, TaskStruct, RequestType

LEMMA FillAttrType ==
  ASSUME NEW p \in TaskStruct, NEW request \in RequestType
  PROVE  fill_attr(request, p) \in RequestType
<1>1. PRIO_TO_NICE(p.static_prio) \in Int /\ p.rt_priority \in 0 .. MAX_RT_PRIO
  BY TaskPrioType DEF TaskStruct
<1>2. [request EXCEPT !.nice = PRIO_TO_NICE(p.static_prio)] \in RequestType
  BY <1>1 DEF RequestType
<1>3. [request EXCEPT !.priority = p.rt_priority] \in RequestType
  BY <1>1 DEF RequestType
<1> QED BY <1>2, <1>3 DEF fill_attr, get_params

-----------------------------------------------------------------------------
(* The invariant, and that every step keeps it.                            *)


\* A task that is not a process yet, or not any more, is off the queue and in
\* no kernel path; only a wait loop leaves TASK_RUNNING.
TaskStates ==
    \A p \in Task :
        /\ task[p].sched_class # "idle"
        /\ task[p].state \in {"NEW", "DEAD"} => ~ task[p].on_rq /\ call[p] = NoCall
        /\ task[p].state = "DEAD" => ~ cond[p]
        /\ task[p].state = "INTERRUPTIBLE" => call[p].op = "wait"

\* A task is queued until it gets to schedule(), and it gets there in
\* TASK_RUNNING if it was woken after it found the condition false.
WaitLoops ==
    \A p \in Task : call[p].op = "wait" =>
        /\ call[p].pc \in {"test", "sleep"} => task[p].on_rq
        /\ call[p].pc = "sleep" /\ cond[p] /\ p \notin waking => task[p].state = "RUNNING"

\* A child belongs to one fork, is no process before it is attached and new
\* until it is woken; its copy has the class its policy asks for.
ForksPrivate ==
    \A t \in Task : call[t].op = "fork" =>
        /\ call[t].pc \in {"dup", "forked"} => task[call[t].p].state = "DEAD"
        /\ call[t].pc \in {"grant", "wake"} => task[call[t].p].state = "NEW"
        /\ call[t].pc = "forked" =>
              LET child == call[t].embryo
              IN  /\ child.state = "NEW" /\ ~ child.on_rq
                  /\ child.sched_class \in Classes
                  /\ ltr_policy(child.policy) <=> child.sched_class = "lottery"
        /\ \A u \in Task : call[u].op = "fork" /\ call[u].p = call[t].p => u = t

\* Only a request for the lottery policy gets past the checks.
RequestsLottery == \A t \in Task : call[t].op = "setsched" => ltr_policy(call[t].policy)

\* The inductive invariant.
Inv ==
    /\ TypeOK /\ QueuesMatchTasks /\ RunnableIsQueued /\ NoLostWakeup
    /\ ClassFollowsPolicy /\ ListOpsLegal
    /\ TaskStates /\ WaitLoops /\ ForksPrivate /\ RequestsLottery

-----------------------------------------------------------------------------
(* What the invariant says of a state of the kernel.                       *)

\* The two ways of counting the tasks of the classes with a counter agree.
LEMMA CountedTasks ==
  ASSUME NEW k \in KState, NEW loc,
         \A p \in Task, class \in Counted : p \in k.rq.queued[class] <=> loc[p] = class
  PROVE  {p \in Task : loc[p] \in Counted} = UNION {k.rq.queued[class] : class \in Counted}
<1>1. \A class \in Counted : k.rq.queued[class] \in SUBSET Task
  BY DEF KState, RunQueue, Counted
<1>2. ASSUME NEW p \in Task, loc[p] \in Counted
      PROVE  p \in UNION {k.rq.queued[class] : class \in Counted}
  BY <1>2
<1>3. ASSUME NEW p, NEW class \in Counted, p \in k.rq.queued[class]
      PROVE  p \in Task /\ loc[p] \in Counted
  BY <1>1, <1>3
<1> QED BY <1>2, <1>3

\* The invariant makes every operator of core.c applicable.
LEMMA InvGood ==
  ASSUME Inv
  PROVE  Good(K)
<1>1. K \in KState
  BY DEF Inv, TypeOK, K, KState
<1>2. NoneIdle(K)
  BY <1>1 DEF NoneIdle, K, KState, TaskStruct, Inv, TaskStates, Classes, Counted
<1>3. K.task = task /\ K.rq = rq /\ K.fault = fault
  BY DEF K
<1>4. \A p \in Task : Place(K)[p] = IF task[p].on_rq THEN task[p].sched_class ELSE "none"
  BY <1>3 DEF Place
<1>5. \A p \in Task, class \in Counted : p \in K.rq.queued[class] <=> Place(K)[p] = class
  BY <1>3, <1>4 DEF Inv, QueuesMatchTasks, Counted
<1>6. \A p \in Task : Linked(K.rq.ltr, p) <=> Place(K)[p] = "lottery"
  BY <1>3, <1>4 DEF Inv, QueuesMatchTasks
<1>7. K.rq.nr_running = Cardinality({p \in Task : Place(K)[p] \in Counted})
  <2>1. {p \in Task : Place(K)[p] \in Counted} = UNION {K.rq.queued[class] : class \in Counted}
    BY <1>1, <1>5, CountedTasks
  <2>2. rq.nr_running = Cardinality(UNION {rq.queued[class] : class \in Counted})
    BY DEF Inv, QueuesMatchTasks, Counted
  <2> QED BY <1>3, <2>1, <2>2
<1>8. NoDuplicates(K.rq.ltr.queue)
  BY <1>3 DEF Inv, QueuesMatchTasks
<1> QED BY <1>1, <1>2, <1>5, <1>6, <1>7, <1>8 DEF Good, Placed

\* A step that commits a good state keeps the queues in order.
LEMMA CommitQueues ==
  ASSUME NEW k, Good(k), task' = k.task, rq' = k.rq
  PROVE  /\ task' \in [Task \cup {Idle} -> TaskStruct] /\ rq' \in RunQueue
         /\ QueuesMatchTasks'
         /\ \A p \in Task : task'[p].sched_class # "idle"
<1>1. k \in KState /\ NoneIdle(k) /\ Placed(k, Place(k))
  BY DEF Good
<1>2. \A p \in Task : Place(k)[p] = IF task'[p].on_rq THEN task'[p].sched_class ELSE "none"
  BY DEF Place
<1>3. \A p \in Task : task'[p].sched_class # "idle" /\ task'[p].sched_class # "none"
  BY <1>1 DEF NoneIdle, Classes, Counted
<1>4. \A p \in Task, class \in Counted : p \in rq'.queued[class] <=> Place(k)[p] = class
  BY <1>1 DEF Placed
<1>5. \A p \in Task : Linked(rq'.ltr, p) <=> Place(k)[p] = "lottery"
  BY <1>1 DEF Placed
<1>6. NoDuplicates(rq'.ltr.queue) /\ rq'.nr_running = Cardinality({p \in Task : Place(k)[p] \in Counted})
  BY <1>1 DEF Placed
<1>7. {p \in Task : Place(k)[p] \in Counted} = UNION {rq'.queued[class] : class \in Counted}
  <2>1. \A p \in Task, class \in Counted : p \in k.rq.queued[class] <=> Place(k)[p] = class
    BY <1>4
  <2> QED BY <1>1, <2>1, CountedTasks
<1>8. QueuesMatchTasks'
  <2>1. \A p \in Task, class \in Counted : p \in rq'.queued[class] <=> task'[p].on_rq /\ task'[p].sched_class = class
    BY <1>2, <1>4 DEF Counted
  <2>2. \A p \in Task : Linked(rq'.ltr, p) <=> task'[p].on_rq /\ task'[p].sched_class = "lottery"
    BY <1>2, <1>5
  <2>3. rq'.nr_running = Cardinality(UNION {rq'.queued[class] : class \in Counted})
    BY <1>6, <1>7
  <2> QED BY <1>6, <2>1, <2>2, <2>3 DEF QueuesMatchTasks, Counted
<1>9. task' \in [Task \cup {Idle} -> TaskStruct] /\ rq' \in RunQueue
  BY <1>1 DEF KState
<1> QED BY <1>3, <1>8, <1>9

\* The record a task in a kernel path is in.
LEMMA CallShape ==
  ASSUME NEW c \in CallType
  PROVE  /\ c.op = "none" <=> c = NoCall
         /\ c.op = "wait" => c \in [op : {"wait"}, pc : {"test", "sleep", "again"}]
         /\ c.op = "fork" /\ c.pc \in {"dup", "forked"} =>
               c \in [op : {"fork"}, pc : {"dup", "forked"}, kind : CloneKind, p : Task, embryo : TaskStruct]
         /\ c.op = "fork" => /\ c.pc \in {"dup", "forked", "grant", "wake"}
                             /\ c.kind \in CloneKind /\ c.p \in Task
         /\ c.op = "fork" /\ c.pc \in {"grant", "wake"} =>
               c \in [op : {"fork"}, pc : {"grant", "wake"}, kind : CloneKind, p : Task]
         /\ c.op = "setsched" =>
               c \in [op : {"setsched"}, p : Task, attr : RequestType, policy : Policy,
                      oldpolicy : Policy \cup {SETPARAM_POLICY}, reset_on_fork : BOOLEAN]
BY DEF CallType, NoCall

LEMMA CallTypes ==
  /\ NoCall \in CallType
  /\ [op : {"wait"}, pc : {"test", "sleep", "again"}] \subseteq CallType
  /\ [op : {"fork"}, pc : {"dup", "forked"}, kind : CloneKind, p : Task, embryo : TaskStruct] \subseteq CallType
  /\ [op : {"fork"}, pc : {"grant", "wake"}, kind : CloneKind, p : Task] \subseteq CallType
  /\ [op : {"setsched"}, p : Task, attr : RequestType, policy : Policy,
      oldpolicy : Policy \cup {SETPARAM_POLICY}, reset_on_fork : BOOLEAN] \subseteq CallType
BY DEF CallType

\* The task on the CPU is queued, hence a process; outside a wait loop it is
\* in TASK_RUNNING.
LEMMA CurrRuns ==
  ASSUME Inv, NEW t \in Task, rq.curr = t
  PROVE  /\ task[t].on_rq /\ task[t].state \notin {"NEW", "DEAD"}
         /\ call[t].op # "wait" => task[t].state = "RUNNING"
<1>1. task[t].on_rq
  BY DEF Inv, RunnableIsQueued
<1>2. task[t].state \notin {"NEW", "DEAD"}
  BY <1>1 DEF Inv, TaskStates
<1>3. task[t] \in TaskStruct
  BY DEF Inv, TypeOK
<1> QED BY <1>1, <1>2, <1>3 DEF Inv, TaskStates, TaskStruct, TaskState

\* The child of a fork is not a process, or not woken yet.
LEMMA ForkChild ==
  ASSUME Inv, NEW t \in Task, call[t].op = "fork"
  PROVE  call[t].p \in Task /\ task[call[t].p].state \in {"NEW", "DEAD"}
<1>1. call[t] \in CallType
  BY DEF Inv, TypeOK
<1>2. call[t].p \in Task /\ call[t].pc \in {"dup", "forked", "grant", "wake"}
  BY <1>1, CallShape
<1> QED BY <1>2 DEF Inv, ForksPrivate

\* What the invariant says of one task.
Sound(p) ==
    /\ task[p].state = "RUNNING" => task[p].on_rq
    /\ cond[p] /\ p \notin waking /\ task[p].state # "NEW" => task[p].on_rq
    /\ task[p].state # "DEAD" => (ltr_policy(task[p].policy) <=> task[p].sched_class = "lottery")
    /\ task[p].state \in {"NEW", "DEAD"} => ~ task[p].on_rq /\ call[p] = NoCall
    /\ task[p].state = "DEAD" => ~ cond[p]
    /\ task[p].state = "INTERRUPTIBLE" => call[p].op = "wait"
    /\ call[p].op = "wait" =>
          /\ call[p].pc \in {"test", "sleep"} => task[p].on_rq
          /\ call[p].pc = "sleep" /\ cond[p] /\ p \notin waking => task[p].state = "RUNNING"

LEMMA InvSound ==
  ASSUME Inv, NEW p \in Task
  PROVE  Sound(p)
BY DEF Sound, Inv, RunnableIsQueued, NoLostWakeup, ClassFollowsPolicy, Visible, TaskStates, WaitLoops

\* A task nothing happens to stays sound.
LEMMA Untouched ==
  ASSUME Inv, NEW p \in Task, task'[p] = task[p], call'[p] = call[p], cond'[p] = cond[p],
         p \in waking' <=> p \in waking
  PROVE  Sound(p)'
BY InvSound DEF Sound

\* A step that leaves a good state, sound tasks and sound kernel paths.
LEMMA SoundStep ==
  ASSUME NEW k, Good(k), task' = k.task, rq' = k.rq,
         call' \in [Task -> CallType], cond' \in [Task -> BOOLEAN], waking' \in SUBSET Task,
         fault' \in {"none", "update_curr", "err_ptr"},
         \A p \in Task : Sound(p)',
         rq'.curr \in Task => task'[rq'.curr].on_rq,
         ForksPrivate', RequestsLottery'
  PROVE  Inv'
<1>1. /\ task' \in [Task \cup {Idle} -> TaskStruct] /\ rq' \in RunQueue
      /\ QueuesMatchTasks'
      /\ \A p \in Task : task'[p].sched_class # "idle"
  BY CommitQueues
<1>2. TypeOK' /\ ListOpsLegal'
  BY <1>1 DEF TypeOK, ListOpsLegal
<1>3. RunnableIsQueued'
  <2> SUFFICES ASSUME NEW p \in Task, task'[p].state = "RUNNING" \/ rq'.curr = p
               PROVE  task'[p].on_rq
    BY DEF RunnableIsQueued
  <2>1. Sound(p)'
    OBVIOUS
  <2> QED BY <2>1 DEF Sound
<1>4. NoLostWakeup' /\ ClassFollowsPolicy'
  BY DEF Sound, NoLostWakeup, ClassFollowsPolicy, Visible
<1>5. TaskStates' /\ WaitLoops'
  BY <1>1 DEF Sound, TaskStates, WaitLoops
<1> QED BY <1>1, <1>2, <1>3, <1>4, <1>5 DEF Inv

\* A step that takes no fork further and no child out of its state.
LEMMA ForksKept ==
  ASSUME Inv,
         \A t \in Task : call'[t].op = "fork" => call'[t] = call[t],
         \A p \in Task : task[p].state \in {"NEW", "DEAD"} => task'[p].state = task[p].state
  PROVE  ForksPrivate'
<1>1. \A t \in Task : call[t].op = "fork" => task'[call[t].p].state = task[call[t].p].state
  BY ForkChild
<1> QED BY <1>1 DEF Inv, ForksPrivate

\* A step that lets no request past the checks.
LEMMA RequestsKept ==
  ASSUME Inv, \A t \in Task : call'[t].op = "setsched" => call'[t] = call[t]
  PROVE  RequestsLottery'
BY DEF Inv, RequestsLottery

-----------------------------------------------------------------------------
(* One lemma per action.                                                   *)

\* A step that leaves the tasks, the kernel paths and the wakers alone, and
\* the CPU with a queued task.
LEMMA QuietStep ==
  ASSUME Inv, NEW k, Good(k), Commit(k), UNCHANGED <<call, cond, waking>>,
         k.task = task, k.fault = fault, k.rq.curr \in Task => task[k.rq.curr].on_rq
  PROVE  Inv'
<1>1. task' = task /\ rq' = k.rq /\ fault' = fault
  BY DEF Commit
<1>2. TypeOK' /\ QueuesMatchTasks'
  <2>1. task' \in [Task \cup {Idle} -> TaskStruct] /\ rq' \in RunQueue /\ QueuesMatchTasks'
    BY <1>1, CommitQueues DEF Commit
  <2> QED BY <1>1, <2>1 DEF Inv, TypeOK
<1>3. RunnableIsQueued'
  BY <1>1 DEF Inv, RunnableIsQueued
<1>4. NoLostWakeup' /\ ClassFollowsPolicy' /\ ListOpsLegal'
  BY <1>1 DEF Inv, NoLostWakeup, ClassFollowsPolicy, ListOpsLegal, Visible
<1>5. TaskStates' /\ WaitLoops'
  BY <1>1 DEF Inv, TaskStates, WaitLoops
<1>6. ForksPrivate' /\ RequestsLottery'
  BY <1>1 DEF Inv, ForksPrivate, RequestsLottery
<1> QED BY <1>2, <1>3, <1>4, <1>5, <1>6 DEF Inv

LEMMA TickStep ==
  ASSUME Inv, Tick
  PROVE  Inv'
<1>1. Good(K) /\ K \in KState
  BY InvGood DEF Good
<1>2. PICK should_preempt, preempt : Commit(scheduler_tick(K, should_preempt, preempt))
  BY DEF Tick
<1> DEFINE k == scheduler_tick(K, should_preempt, preempt)
<1>3. Alike(K, k)
  BY <1>1, TickAlike
<1> HIDE DEF k
<1>4. Good(k)
  BY <1>1, <1>3, AlikeGood
<1>5. k.task = task /\ k.fault = fault /\ k.rq.curr = rq.curr
  BY <1>3 DEF Alike, K
<1>6. k.rq.curr \in Task => task[k.rq.curr].on_rq
  BY <1>5, CurrRuns
<1> QED BY <1>2, <1>4, <1>5, <1>6, QuietStep DEF Tick, k

LEMMA PreemptStep ==
  ASSUME Inv, Preempt
  PROVE  Inv'
<1>1. Good(K)
  BY InvGood
<1>2. PICK k \in __schedule(K, "SM_PREEMPT") : Commit(k)
  BY DEF Preempt
<1>3. /\ Good(k) /\ k.fault = K.fault
      /\ k.rq.curr \in Task => k.task[k.rq.curr].on_rq
      /\ k.task = K.task
  BY <1>1, <1>2, ScheduleGood
<1>4. k.task = task /\ k.fault = fault
  BY <1>3 DEF K
<1> QED BY <1>2, <1>3, <1>4, QuietStep DEF Preempt

LEMMA YieldStep ==
  ASSUME Inv, NEW t \in Task, do_sched_yield(t)
  PROVE  Inv'
<1>1. Good(K) /\ K.task = task /\ K.rq = rq /\ K.fault = fault
  BY InvGood DEF K
<1>2. rq.curr = t /\ task[t].on_rq /\ task[t].state = "RUNNING"
  BY CurrRuns DEF do_sched_yield, Runs, NoCall
<1>3. PICK k \in __schedule(K, "SM_NONE") : Commit(k)
  BY DEF do_sched_yield
<1>4. /\ Good(k) /\ k.fault = fault /\ k.task = task
      /\ k.rq.curr \in Task => task[k.rq.curr].on_rq
  BY <1>1, <1>2, <1>3, ScheduleGood
<1> QED BY <1>3, <1>4, QuietStep DEF do_sched_yield

\* Reading the runtime changes nothing, or takes the kernel down.
LEMMA ReadRuntimeStep ==
  ASSUME Inv, NEW t \in Task, read_runtime(t)
  PROVE  Inv'
<1>1. /\ task' = task /\ rq' = rq /\ UNCHANGED <<call, cond, waking>>
      /\ fault' \in {fault, "update_curr"}
  <2>1. Commit(task_sched_runtime(K, t)) /\ UNCHANGED <<call, cond, waking>>
    BY DEF read_runtime
  <2>2. \/ task_sched_runtime(K, t) = K
        \/ task_sched_runtime(K, t) = [K EXCEPT !.fault = "update_curr"]
    BY DEF task_sched_runtime
  <2>3. K.task = task /\ K.rq = rq /\ K.fault = fault
    BY DEF K
  <2>4. [K EXCEPT !.fault = "update_curr"].task = task /\ [K EXCEPT !.fault = "update_curr"].rq = rq
        /\ [K EXCEPT !.fault = "update_curr"].fault = "update_curr"
    BY DEF K
  <2> QED BY <2>1, <2>2, <2>3, <2>4 DEF Commit
<1>2. TypeOK' /\ QueuesMatchTasks' /\ RunnableIsQueued'
  BY <1>1 DEF Inv, TypeOK, QueuesMatchTasks, RunnableIsQueued
<1>3. NoLostWakeup' /\ ClassFollowsPolicy' /\ ListOpsLegal'
  BY <1>1 DEF Inv, NoLostWakeup, ClassFollowsPolicy, ListOpsLegal, Visible
<1>4. TaskStates' /\ WaitLoops' /\ ForksPrivate' /\ RequestsLottery'
  BY <1>1 DEF Inv, TaskStates, WaitLoops, ForksPrivate, RequestsLottery
<1> QED BY <1>2, <1>3, <1>4 DEF Inv

LEMMA SetCurrentStateStep ==
  ASSUME Inv, NEW t \in Task, set_current_state(t)
  PROVE  Inv'
<1> DEFINE asleep == [task[t] EXCEPT !.state = "INTERRUPTIBLE"]
           n == [K EXCEPT !.task[t] = asleep]
<1>1. /\ rq.curr = t
      /\ task' = [task EXCEPT ![t] = asleep]
      /\ call' = [call EXCEPT ![t] = [op |-> "wait", pc |-> "test"]]
      /\ UNCHANGED <<rq, cond, waking, fault>>
  BY DEF set_current_state, Runs, RunsIn
<1>2. task[t].on_rq /\ task[t].state \notin {"NEW", "DEAD"}
  BY <1>1, CurrRuns
<1>3. /\ Good(K) /\ K.task = task /\ K.rq = rq
      /\ task \in [Task \cup {Idle} -> TaskStruct] /\ call \in [Task -> CallType]
      /\ task[t].sched_class \in Classes
  BY InvGood DEF Inv, TypeOK, Good, NoneIdle, K
<1>4. /\ asleep \in TaskStruct /\ asleep.state = "INTERRUPTIBLE" /\ asleep.on_rq = task[t].on_rq
      /\ asleep.sched_class = task[t].sched_class /\ asleep.policy = task[t].policy
  BY <1>3 DEF TaskStruct, TaskState
<1> HIDE DEF asleep
<1>5. /\ task'[t] = asleep /\ call'[t] = [op |-> "wait", pc |-> "test"]
      /\ \A p \in Task \ {t} : task'[p] = task[p] /\ call'[p] = call[p]
  BY <1>1, <1>3
<1>6. Good(n) /\ task' = n.task /\ rq' = n.rq
  <2>1. Good(n)
    BY <1>3, <1>4, GoodUpdate
  <2> QED BY <1>1, <1>3, <2>1 DEF Good, KState
<1>7. Sound(t)'
  <2>1. task'[t].on_rq /\ task'[t].state = "INTERRUPTIBLE"
        /\ call'[t].op = "wait" /\ call'[t].pc = "test"
    <3>1. task'[t].on_rq
      BY <1>2, <1>4, <1>5
    <3>2. task'[t].state = "INTERRUPTIBLE"
      BY <1>4, <1>5
    <3>3. call'[t].op = "wait" /\ call'[t].pc = "test"
      BY <1>5
    <3> QED BY <3>1, <3>2, <3>3
  <2>2. ltr_policy(task'[t].policy) <=> task'[t].sched_class = "lottery"
    <3>1. Sound(t)
      BY InvSound
    <3> QED BY <3>1, <1>2, <1>4, <1>5 DEF Sound
  <2> QED BY <2>1, <2>2 DEF Sound
<1>8. \A p \in Task : Sound(p)'
  BY <1>1, <1>5, <1>7, Untouched
<1>9. call' \in [Task -> CallType]
  <2>1. [op |-> "wait", pc |-> "test"] \in CallType
    BY DEF CallType
  <2> QED BY <1>1, <1>3, <2>1
<1>10. ForksPrivate' /\ RequestsLottery'
  BY <1>2, <1>5, ForksKept, RequestsKept
<1>11. rq'.curr \in Task => task'[rq'.curr].on_rq
  BY <1>1, <1>2, <1>4, <1>5
<1> HIDE DEF n
<1> QED BY <1>1, <1>6, <1>8, <1>9, <1>10, <1>11, SoundStep DEF Inv, TypeOK, ListOpsLegal

LEMMA TestConditionStep ==
  ASSUME Inv, NEW t \in Task, test_condition(t)
  PROVE  Inv'
<1>1. /\ rq.curr = t /\ call[t].op = "wait" /\ call[t].pc = "test"
      /\ UNCHANGED <<rq, waking, fault>>
  BY DEF test_condition, RunsIn
<1>2. task[t].on_rq /\ task[t].state \notin {"NEW", "DEAD"}
  BY <1>1, CurrRuns
<1>3. /\ Good(K) /\ K.task = task /\ K.rq = rq
      /\ task \in [Task \cup {Idle} -> TaskStruct] /\ call \in [Task -> CallType]
      /\ cond \in [Task -> BOOLEAN] /\ task[t].sched_class \in Classes
  BY InvGood DEF Inv, TypeOK, Good, NoneIdle, K
<1>4. Sound(t)
  BY InvSound
<1>5. CASE cond[t]
  <2> DEFINE awake == [task[t] EXCEPT !.state = "RUNNING"]
             n == [K EXCEPT !.task[t] = awake]
  <2>1. /\ task' = [task EXCEPT ![t] = awake]
        /\ cond' = [cond EXCEPT ![t] = FALSE]
        /\ call' = [call EXCEPT ![t] = NoCall]
    BY <1>5 DEF test_condition
  <2>2. /\ awake \in TaskStruct /\ awake.state = "RUNNING" /\ awake.on_rq = task[t].on_rq
        /\ awake.sched_class = task[t].sched_class /\ awake.policy = task[t].policy
    BY <1>3 DEF TaskStruct, TaskState
  <2> HIDE DEF awake
  <2>3. /\ task'[t] = awake /\ call'[t] = NoCall /\ cond'[t] = FALSE
        /\ \A p \in Task \ {t} : task'[p] = task[p] /\ call'[p] = call[p] /\ cond'[p] = cond[p]
    BY <1>3, <2>1
  <2>4. Good(n) /\ task' = n.task /\ rq' = n.rq
    <3>1. Good(n)
      BY <1>3, <2>2, GoodUpdate
    <3> QED BY <1>1, <1>3, <2>1, <3>1 DEF Good, KState
  <2>5. Sound(t)'
    <3>1. task'[t].on_rq
      BY <1>2, <2>2, <2>3
    <3>2. task'[t].state = "RUNNING" /\ call'[t].op = "none"
      BY <2>2, <2>3 DEF NoCall
    <3>3. ltr_policy(task'[t].policy) <=> task'[t].sched_class = "lottery"
      BY <1>2, <1>4, <2>2, <2>3 DEF Sound
    <3> QED BY <3>1, <3>2, <3>3 DEF Sound
  <2>6. \A p \in Task : Sound(p)'
    BY <1>1, <2>3, <2>5, Untouched
  <2>7. call' \in [Task -> CallType] /\ cond' \in [Task -> BOOLEAN]
    BY <1>3, <2>1, CallTypes
  <2>8. ForksPrivate' /\ RequestsLottery'
    <3>1. call'[t].op = "none"
      BY <2>3 DEF NoCall
    <3> QED BY <1>2, <2>3, <3>1, ForksKept, RequestsKept
  <2>9. rq'.curr \in Task => task'[rq'.curr].on_rq
    BY <1>1, <1>2, <2>2, <2>3
  <2> HIDE DEF n
  <2> QED BY <1>1, <2>4, <2>6, <2>7, <2>8, <2>9, SoundStep DEF Inv, TypeOK, ListOpsLegal
<1>6. CASE ~ cond[t]
  <2>1. UNCHANGED <<task, cond>> /\ call' = [call EXCEPT ![t].pc = "sleep"]
    BY <1>6 DEF test_condition
  <2>2. call[t] \in [op : {"wait"}, pc : {"test", "sleep", "again"}]
    BY <1>1, <1>3, CallShape
  <2>3. /\ call'[t].op = "wait" /\ call'[t].pc = "sleep"
        /\ \A p \in Task \ {t} : call'[p] = call[p]
        /\ call'[t] \in [op : {"wait"}, pc : {"test", "sleep", "again"}]
    BY <1>3, <2>1, <2>2
  <2>4. Sound(t)'
    BY <1>1, <1>2, <1>4, <1>6, <2>1, <2>3 DEF Sound
  <2>5. \A p \in Task : Sound(p)'
    BY <1>1, <2>1, <2>3, <2>4, Untouched
  <2>6. call' \in [Task -> CallType]
    <3>1. call'[t] \in CallType
      BY <2>3, CallTypes
    <3> QED BY <1>3, <2>1, <3>1
  <2>7. ForksPrivate' /\ RequestsLottery'
    BY <2>1, <2>3, ForksKept, RequestsKept
  <2>8. rq'.curr \in Task => task'[rq'.curr].on_rq
    BY <1>1, <1>2, <2>1
  <2> QED BY <1>1, <1>3, <2>1, <2>5, <2>6, <2>7, <2>8, SoundStep DEF Inv, TypeOK, ListOpsLegal
<1> QED BY <1>5, <1>6

\* The three outcomes of schedule(): the task was woken, a signal woke it, or
\* it sleeps, and then nobody has made its condition true without a wake-up
\* to come.
LEMMA ScheduleStep ==
  ASSUME Inv, NEW t \in Task, schedule(t)
  PROVE  Inv'
<1>1. /\ rq.curr = t /\ call[t].op = "wait" /\ call[t].pc = "sleep"
      /\ call' = [call EXCEPT ![t].pc = "again"]
      /\ UNCHANGED <<cond, waking>>
  BY DEF schedule, RunsIn
<1>2. task[t].on_rq /\ task[t].state \notin {"NEW", "DEAD"}
  BY <1>1, CurrRuns
<1>3. /\ Good(K) /\ K.task = task /\ K.rq = rq /\ K.fault = fault
      /\ task \in [Task \cup {Idle} -> TaskStruct] /\ call \in [Task -> CallType]
      /\ cond \in [Task -> BOOLEAN]
  BY InvGood DEF Inv, TypeOK, K
<1>4. Sound(t) /\ task[t] \in TaskStruct
  BY <1>3, InvSound
<1>5. PICK k \in __schedule(K, "SM_NONE") : Commit(k)
  BY DEF schedule
<1>6. /\ Good(k) /\ k.fault = fault
      /\ k.rq.curr \in Task => k.task[k.rq.curr].on_rq
      /\ \/ k.task = task /\ task[t].state = "RUNNING"
         \/ k.task = [task EXCEPT ![t] = [@ EXCEPT !.state = "RUNNING"]]
         \/ k.task = [task EXCEPT ![t] = [@ EXCEPT !.on_rq = FALSE]] /\ task[t].state # "RUNNING"
  <2>1. K.rq.curr = t /\ K.task[t].on_rq
    BY <1>1, <1>2, <1>3
  <2> DEFINE prev == K.rq.curr
  <2>2. /\ Good(k) /\ k.fault = K.fault
        /\ k.rq.curr \in Task => k.task[k.rq.curr].on_rq
        /\ \/ k.task = K.task /\ ("SM_NONE" = "SM_PREEMPT" \/ K.task[prev].state = "RUNNING")
           \/ /\ "SM_NONE" # "SM_PREEMPT"
              /\ K.task[prev].state = "INTERRUPTIBLE"
              /\ k.task = [K.task EXCEPT ![prev] = [@ EXCEPT !.state = "RUNNING"]]
           \/ /\ "SM_NONE" # "SM_PREEMPT"
              /\ K.task[prev].state # "RUNNING"
              /\ k.task = [K.task EXCEPT ![prev] = [@ EXCEPT !.on_rq = FALSE]]
    <3>1. prev \in Task /\ K.task[prev].on_rq
      BY <2>1
    <3>2. Good(K) /\ k \in __schedule(K, "SM_NONE")
      BY <1>3, <1>5
    <3> QED BY <3>1, <3>2, ScheduleGood
  <2>3. prev = t
    BY <2>1
  <2> QED BY <1>3, <2>2, <2>3
<1>7. task' = k.task /\ rq' = k.rq /\ fault' = fault
  BY <1>5, <1>6 DEF Commit
<1>8. /\ \A p \in Task \ {t} : task'[p] = task[p]
      /\ \/ task'[t] = task[t] /\ task[t].state = "RUNNING"
         \/ task'[t] = [task[t] EXCEPT !.state = "RUNNING"]
         \/ task'[t] = [task[t] EXCEPT !.on_rq = FALSE] /\ task[t].state # "RUNNING"
  BY <1>3, <1>6, <1>7
<1>9. call[t] \in [op : {"wait"}, pc : {"test", "sleep", "again"}]
  BY <1>1, <1>3, CallShape
<1>10. /\ call'[t].op = "wait" /\ call'[t].pc = "again"
       /\ \A p \in Task \ {t} : call'[p] = call[p]
       /\ call'[t] \in [op : {"wait"}, pc : {"test", "sleep", "again"}]
  BY <1>1, <1>3, <1>9
<1>11. Sound(t)'
  <2>1. ltr_policy(task'[t].policy) <=> task'[t].sched_class = "lottery"
    <3>1. task'[t].policy = task[t].policy /\ task'[t].sched_class = task[t].sched_class
      BY <1>4, <1>8 DEF TaskStruct
    <3> QED BY <1>2, <1>4, <3>1 DEF Sound
  <2>2. \/ task'[t].state = "RUNNING" /\ task'[t].on_rq
        \/ task'[t].state = "INTERRUPTIBLE" /\ ~ (cond'[t] /\ t \notin waking')
    <3>1. CASE task'[t] = task[t] /\ task[t].state = "RUNNING"
      BY <1>2, <3>1
    <3>2. CASE task'[t] = [task[t] EXCEPT !.state = "RUNNING"]
      BY <1>2, <1>4, <3>2 DEF TaskStruct
    <3>3. CASE task'[t] = [task[t] EXCEPT !.on_rq = FALSE] /\ task[t].state # "RUNNING"
      <4>1. ~ (cond[t] /\ t \notin waking)
        BY <1>1, <1>4, <3>3 DEF Sound
      <4>2. task'[t].state = "INTERRUPTIBLE"
        BY <1>2, <1>4, <3>3 DEF TaskStruct, TaskState
      <4> QED BY <1>1, <4>1, <4>2
    <3> QED BY <1>8, <3>1, <3>2, <3>3
  <2> QED BY <1>10, <2>1, <2>2 DEF Sound
<1>12. \A p \in Task : Sound(p)'
  BY <1>1, <1>8, <1>10, <1>11, Untouched
<1>13. call' \in [Task -> CallType]
  <2>1. call'[t] \in CallType
    BY <1>10, CallTypes
  <2> QED BY <1>1, <1>3, <2>1
<1>14. ForksPrivate' /\ RequestsLottery'
  BY <1>2, <1>8, <1>10, ForksKept, RequestsKept
<1>15. rq'.curr \in Task => task'[rq'.curr].on_rq
  BY <1>6, <1>7
<1> QED BY <1>1, <1>6, <1>7, <1>12, <1>13, <1>14, <1>15, SoundStep DEF Inv, TypeOK, ListOpsLegal

LEMMA SetConditionStep ==
  ASSUME Inv, NEW p \in Task, set_condition(p)
  PROVE  Inv'
<1>1. /\ task[p].state # "DEAD" /\ UNCHANGED <<task, rq, call, fault>>
      /\ cond' = [cond EXCEPT ![p] = TRUE] /\ waking' = waking \cup {p}
  BY DEF set_condition, Visible
<1>2. /\ Good(K) /\ K.task = task /\ K.rq = rq /\ call \in [Task -> CallType]
      /\ cond \in [Task -> BOOLEAN] /\ waking \in SUBSET Task
  BY InvGood DEF Inv, TypeOK, K
<1>3. p \in waking' /\ \A q \in Task \ {p} : cond'[q] = cond[q] /\ (q \in waking' <=> q \in waking)
  BY <1>1, <1>2
<1>4. Sound(p)'
  <2>1. Sound(p)
    BY InvSound
  <2> QED BY <1>1, <1>3, <2>1 DEF Sound
<1>5. \A q \in Task : Sound(q)'
  BY <1>1, <1>3, <1>4, Untouched
<1>6. ForksPrivate' /\ RequestsLottery'
  BY <1>1, ForksKept, RequestsKept
<1>7. rq'.curr \in Task => task'[rq'.curr].on_rq
  BY <1>1, CurrRuns
<1>8. call' \in [Task -> CallType] /\ cond' \in [Task -> BOOLEAN] /\ waking' \in SUBSET Task
  BY <1>1, <1>2
<1> QED BY <1>1, <1>2, <1>5, <1>6, <1>7, <1>8, SoundStep DEF Inv, TypeOK, ListOpsLegal

\* After the wake-up, a task whose condition holds is runnable.
LEMMA WakeUpStep ==
  ASSUME Inv, NEW p \in Task, wake_up_process(p)
  PROVE  Inv'
<1>1. UNCHANGED <<call, cond>> /\ waking' = waking \ {p}
  BY DEF wake_up_process
<1>2. /\ Good(K) /\ K.task = task /\ K.rq = rq /\ K.fault = fault
      /\ call \in [Task -> CallType] /\ waking \in SUBSET Task
      /\ cond \in [Task -> BOOLEAN] /\ task \in [Task \cup {Idle} -> TaskStruct]
  BY InvGood DEF Inv, TypeOK, K
<1>3. PICK preempt \in BOOLEAN : Commit(try_to_wake_up(K, p, preempt))
  BY DEF wake_up_process
<1> DEFINE k == try_to_wake_up(K, p, preempt)
<1>4. IF task[p].state = "INTERRUPTIBLE"
      THEN WorksOn(K, k, p) /\ k.task[p] = [task[p] EXCEPT !.state = "RUNNING", !.on_rq = TRUE]
      ELSE k = K
  <2>1. K.rq.curr = p => K.task[p].on_rq
    BY <1>2, CurrRuns
  <2> QED BY <1>2, <2>1, WakeUpGood
<1>5. task' = k.task /\ rq' = k.rq /\ fault' = k.fault
  BY <1>3 DEF Commit
<1> HIDE DEF k
<1>6. Good(k) /\ fault' = fault /\ rq'.curr = rq.curr
  BY <1>2, <1>4, <1>5 DEF WorksOn
<1>7. /\ \A q \in Task \ {p} : task'[q] = task[q]
      /\ task'[p] = IF task[p].state = "INTERRUPTIBLE"
                    THEN [task[p] EXCEPT !.state = "RUNNING", !.on_rq = TRUE]
                    ELSE task[p]
  BY <1>2, <1>4, <1>5 DEF WorksOn
<1>8. Sound(p) /\ task[p] \in TaskStruct
  BY <1>2, InvSound
<1>9. Sound(p)'
  <2>1. CASE task[p].state = "INTERRUPTIBLE"
    <3>1. /\ task'[p].state = "RUNNING" /\ task'[p].on_rq
          /\ task'[p].policy = task[p].policy /\ task'[p].sched_class = task[p].sched_class
      BY <1>7, <1>8, <2>1 DEF TaskStruct
    <3> QED BY <1>1, <1>8, <2>1, <3>1 DEF Sound
  <2>2. CASE task[p].state # "INTERRUPTIBLE"
    <3>1. task[p].state \in {"RUNNING", "NEW", "DEAD"} /\ task'[p] = task[p]
      BY <1>7, <1>8, <2>2 DEF TaskStruct, TaskState
    <3>2. call[p] = NoCall => call[p].op # "wait"
      BY DEF NoCall
    <3> QED BY <1>1, <1>8, <3>1, <3>2 DEF Sound
  <2> QED BY <2>1, <2>2
<1>10. \A q \in Task : Sound(q)'
  <2>1. \A q \in Task \ {p} : q \in waking' <=> q \in waking
    BY <1>1
  <2> QED BY <1>1, <1>7, <1>9, <2>1, Untouched
<1>11. ForksPrivate' /\ RequestsLottery'
  BY <1>1, <1>7, ForksKept, RequestsKept
<1>12. rq'.curr \in Task => task'[rq'.curr].on_rq
  <2> SUFFICES ASSUME rq'.curr \in Task PROVE task'[rq'.curr].on_rq
    OBVIOUS
  <2>1. task[rq.curr].on_rq /\ rq'.curr = rq.curr
    BY <1>6, CurrRuns
  <2>2. CASE rq.curr = p
    BY <1>7, <1>8, <2>1, <2>2 DEF TaskStruct
  <2>3. CASE rq.curr # p
    BY <1>7, <2>1, <2>3
  <2> QED BY <2>2, <2>3
<1>13. call' \in [Task -> CallType] /\ cond' \in [Task -> BOOLEAN] /\ waking' \in SUBSET Task
  BY <1>1, <1>2
<1> QED BY <1>5, <1>6, <1>10, <1>11, <1>12, <1>13, SoundStep DEF Inv, TypeOK, ListOpsLegal

\* The child is no process, and no other fork has it.
LEMMA DupTaskStep ==
  ASSUME Inv, NEW t \in Task, dup_task_struct(t)
  PROVE  Inv'
<1>1. rq.curr = t /\ call[t] = NoCall /\ UNCHANGED <<task, rq, cond, waking, fault>>
  BY DEF dup_task_struct, Runs
<1>2. PICK c \in Task, kind \in Clones :
         /\ Unused(c)
         /\ call' = [call EXCEPT ![t] = [op |-> "fork", pc |-> "dup", kind |-> kind, p |-> c,
                                         embryo |-> task[t]]]
  BY DEF dup_task_struct
<1> DEFINE new == [op |-> "fork", pc |-> "dup", kind |-> kind, p |-> c, embryo |-> task[t]]
<1>3. /\ Good(K) /\ K.task = task /\ K.rq = rq /\ K.fault = fault
      /\ call \in [Task -> CallType] /\ task[t] \in TaskStruct
  BY InvGood DEF Inv, TypeOK, K
<1>4. task[t].on_rq /\ task[t].state = "RUNNING"
  BY <1>1, CurrRuns DEF NoCall
<1>5. call'[t] = new /\ \A u \in Task \ {t} : call'[u] = call[u]
  BY <1>2, <1>3
<1>6. new.op = "fork" /\ new.pc = "dup" /\ new.p = c
  OBVIOUS
<1>7. call' \in [Task -> CallType]
  <2>1. new \in [op : {"fork"}, pc : {"dup", "forked"}, kind : CloneKind, p : Task, embryo : TaskStruct]
    BY <1>3, RequestAssumption
  <2>2. new \in CallType
    BY <2>1, CallTypes
  <2> HIDE DEF new
  <2> QED BY <1>2, <1>3, <2>2 DEF new
<1> HIDE DEF new
<1>8. \A p \in Task : Sound(p)'
  <2>1. Sound(t)'
    BY <1>1, <1>4, <1>5, <1>6, InvSound DEF Sound
  <2> QED BY <1>1, <1>5, <2>1, Untouched
<1>9. ForksPrivate'
  <2>1. task[c].state = "DEAD" /\ \A u \in Task : call[u].op = "fork" => call[u].p # c
    BY <1>2 DEF Unused
  <2> SUFFICES ASSUME NEW u \in Task, call'[u].op = "fork"
               PROVE  /\ call'[u].pc \in {"dup", "forked"} => task'[call'[u].p].state = "DEAD"
                      /\ call'[u].pc \in {"grant", "wake"} => task'[call'[u].p].state = "NEW"
                      /\ call'[u].pc = "forked" =>
                            LET child == call'[u].embryo
                            IN  /\ child.state = "NEW" /\ ~ child.on_rq
                                /\ child.sched_class \in Classes
                                /\ ltr_policy(child.policy) <=> child.sched_class = "lottery"
                      /\ \A v \in Task : call'[v].op = "fork" /\ call'[v].p = call'[u].p => v = u
    BY DEF ForksPrivate
  <2>2. CASE u = t
    BY <1>1, <1>5, <1>6, <2>1, <2>2
  <2>3. CASE u # t
    <3>1. call'[u] = call[u] /\ call[u].op = "fork" /\ call[u].p # c
      BY <1>5, <2>1, <2>3
    <3>2. \A v \in Task : call'[v].op = "fork" /\ call'[v].p = call[u].p => v = u
      <4> SUFFICES ASSUME NEW v \in Task, call'[v].op = "fork", call'[v].p = call[u].p PROVE v = u
        OBVIOUS
      <4>1. v # t
        BY <1>5, <1>6, <3>1
      <4>2. call[v].op = "fork" /\ call[v].p = call[u].p
        BY <1>5, <4>1
      <4> QED BY <3>1, <4>2 DEF Inv, ForksPrivate
    <3> QED BY <1>1, <3>1, <3>2 DEF Inv, ForksPrivate
  <2> QED BY <2>2, <2>3
<1>10. RequestsLottery'
  BY <1>5, <1>6, RequestsKept
<1>11. rq'.curr \in Task => task'[rq'.curr].on_rq
  BY <1>1, <1>4
<1> QED BY <1>1, <1>3, <1>7, <1>8, <1>9, <1>10, <1>11, SoundStep DEF Inv, TypeOK, ListOpsLegal

LEMMA CopyFailsStep ==
  ASSUME Inv, NEW t \in Task, copy_process_fails(t)
  PROVE  Inv'
<1>1. /\ rq.curr = t /\ call[t].op = "fork"
      /\ fault' \in {"none", "err_ptr"}
      /\ call' = [call EXCEPT ![t] = NoCall] /\ UNCHANGED <<task, rq, cond, waking>>
  BY DEF copy_process_fails, RunsIn
<1>2. Good(K) /\ K.task = task /\ K.rq = rq /\ call \in [Task -> CallType]
  BY InvGood DEF Inv, TypeOK, K
<1>3. task[t].on_rq /\ task[t].state = "RUNNING"
  BY <1>1, CurrRuns
<1>4. call'[t] = NoCall /\ call'[t].op = "none" /\ \A u \in Task \ {t} : call'[u] = call[u]
  BY <1>1, <1>2 DEF NoCall
<1>5. \A p \in Task : Sound(p)'
  <2>1. Sound(t)'
    BY <1>1, <1>3, <1>4, InvSound DEF Sound
  <2> QED BY <1>1, <1>4, <2>1, Untouched
<1>6. ForksPrivate' /\ RequestsLottery'
  BY <1>1, <1>4, ForksKept, RequestsKept
<1>7. call' \in [Task -> CallType]
  BY <1>1, <1>2, CallTypes
<1>8. rq'.curr \in Task => task'[rq'.curr].on_rq
  BY <1>1, <1>3
<1> QED BY <1>1, <1>2, <1>5, <1>6, <1>7, <1>8, SoundStep DEF Inv, TypeOK

\* A step of the fork of t: the fork keeps its child, whose state is the one
\* its place in the fork asks for.
LEMMA ForkGoesOn ==
  ASSUME Inv, NEW t \in Task, call[t].op = "fork",
         \A u \in Task \ {t} : call'[u] = call[u],
         \A p \in Task \ {call[t].p} : task'[p].state = task[p].state,
         call'[t].op = "fork", call'[t].p = call[t].p,
         call'[t].pc \in {"dup", "forked"} => task'[call[t].p].state = "DEAD",
         call'[t].pc \in {"grant", "wake"} => task'[call[t].p].state = "NEW",
         call'[t].pc = "forked" =>
            LET child == call'[t].embryo
            IN  /\ child.state = "NEW" /\ ~ child.on_rq
                /\ child.sched_class \in Classes
                /\ ltr_policy(child.policy) <=> child.sched_class = "lottery"
  PROVE  ForksPrivate'
<1>1. \A u, v \in Task : call[u].op = "fork" /\ call[v].op = "fork" /\ call[u].p = call[v].p => u = v
  BY DEF Inv, ForksPrivate
<1>2. \A u \in Task : (call'[u].op = "fork" <=> call[u].op = "fork")
                      /\ (call'[u].op = "fork" => call'[u].p = call[u].p)
  OBVIOUS
<1>3. \A u, v \in Task : call'[u].op = "fork" /\ call'[v].op = "fork" /\ call'[u].p = call'[v].p => u = v
  BY <1>1, <1>2
<1>4. ASSUME NEW u \in Task \ {t}, call[u].op = "fork"
      PROVE  call'[u] = call[u] /\ task'[call[u].p].state = task[call[u].p].state
  <2>1. call[u].p \in Task /\ call[u].p # call[t].p
    BY <1>1, <1>4, ForkChild
  <2> QED BY <2>1
<1> SUFFICES ASSUME NEW u \in Task, call'[u].op = "fork"
             PROVE  /\ call'[u].pc \in {"dup", "forked"} => task'[call'[u].p].state = "DEAD"
                    /\ call'[u].pc \in {"grant", "wake"} => task'[call'[u].p].state = "NEW"
                    /\ call'[u].pc = "forked" =>
                          LET child == call'[u].embryo
                          IN  /\ child.state = "NEW" /\ ~ child.on_rq
                              /\ child.sched_class \in Classes
                              /\ ltr_policy(child.policy) <=> child.sched_class = "lottery"
  BY <1>3 DEF ForksPrivate
<1>5. CASE u = t
  BY <1>5
<1>6. CASE u # t
  <2>1. call[u].op = "fork" /\ call'[u] = call[u] /\ task'[call[u].p].state = task[call[u].p].state
    BY <1>2, <1>4, <1>6
  <2> QED BY <2>1 DEF Inv, ForksPrivate
<1> QED BY <1>5, <1>6

LEMMA ForkStep ==
  ASSUME Inv, NEW t \in Task, copy_process_sched_fork(t)
  PROVE  Inv'
<1> DEFINE child == sched_fork(call[t].embryo, task[t])
<1>1. /\ rq.curr = t /\ call[t].op = "fork" /\ call[t].pc = "dup"
      /\ call' = [call EXCEPT ![t].pc = "forked", ![t].embryo = child]
      /\ UNCHANGED <<task, rq, cond, waking, fault>>
  BY DEF copy_process_sched_fork, RunsIn
<1>2. /\ Good(K) /\ K.task = task /\ K.rq = rq /\ call \in [Task -> CallType]
      /\ task[t] \in TaskStruct
  BY InvGood DEF Inv, TypeOK, K
<1>3. call[t] \in [op : {"fork"}, pc : {"dup", "forked"}, kind : CloneKind, p : Task, embryo : TaskStruct]
  BY <1>1, <1>2, CallShape
<1>4. /\ child \in TaskStruct
      /\ child.state = "NEW" /\ ~ child.on_rq
      /\ child.sched_class \in Classes
      /\ ltr_policy(child.policy) <=> child.sched_class = "lottery"
  BY <1>2, <1>3, ForkClass
<1>5. task[t].on_rq /\ task[t].state = "RUNNING"
  BY <1>1, CurrRuns
<1> HIDE DEF child
<1> DEFINE new == [[call[t] EXCEPT !.pc = "forked"] EXCEPT !.embryo = child]
<1>6. /\ new \in [op : {"fork"}, pc : {"dup", "forked"}, kind : CloneKind, p : Task, embryo : TaskStruct]
      /\ new.op = "fork" /\ new.pc = "forked" /\ new.p = call[t].p /\ new.embryo = child
  BY <1>3, <1>4
<1>7. call' = [call EXCEPT ![t] = new]
  BY <1>1, <1>2
<1> HIDE DEF new
<1>8. call'[t] = new /\ \A u \in Task \ {t} : call'[u] = call[u]
  BY <1>2, <1>7
<1>9. call' \in [Task -> CallType]
  <2>1. new \in CallType
    BY <1>6, CallTypes
  <2> QED BY <1>2, <1>7, <2>1
<1>10. \A p \in Task : Sound(p)'
  <2>1. Sound(t)'
    BY <1>1, <1>5, <1>6, <1>8, InvSound DEF Sound
  <2> QED BY <1>1, <1>8, <2>1, Untouched
<1>11. ForksPrivate'
  <2>1. task[call[t].p].state = "DEAD"
    BY <1>1 DEF Inv, ForksPrivate
  <2>3. call'[t].op = "fork" /\ call'[t].p = call[t].p /\ call'[t].pc = "forked" /\ call'[t].embryo = child
    BY <1>6, <1>8
  <2>4. task' = task
    BY <1>1
  <2> QED BY <1>1, <1>4, <1>8, <2>1, <2>3, <2>4, ForkGoesOn
<1>12. RequestsLottery'
  BY <1>6, <1>8, RequestsKept
<1>13. rq'.curr \in Task => task'[rq'.curr].on_rq
  BY <1>1, <1>5
<1> QED BY <1>1, <1>2, <1>9, <1>10, <1>11, <1>12, <1>13, SoundStep DEF Inv, TypeOK, ListOpsLegal

\* From here on others find the child: it is new, off the queue, and its
\* class is the one its policy asks for.
LEMMA AttachStep ==
  ASSUME Inv, NEW t \in Task, copy_process_attach(t)
  PROVE  Inv'
<1>0. PICK c \in Task : c = call[t].p
  <2>1. call[t].op = "fork"
    BY DEF copy_process_attach, RunsIn
  <2> QED BY <2>1, ForkChild
<1> DEFINE child == call[t].embryo
           n == [K EXCEPT !.task[c] = child]
           new == [op |-> "fork", kind |-> call[t].kind, p |-> c,
                   pc |-> IF call[t].kind = "clone" THEN "grant" ELSE "wake"]
<1>1. /\ rq.curr = t /\ call[t].op = "fork" /\ call[t].pc = "forked"
      /\ task' = [task EXCEPT ![c] = child]
      /\ UNCHANGED <<rq, cond, waking, fault>>
  BY <1>0 DEF copy_process_attach, RunsIn
<1>2. /\ Good(K) /\ K.task = task /\ K.rq = rq /\ call \in [Task -> CallType]
      /\ task \in [Task \cup {Idle} -> TaskStruct]
  BY InvGood DEF Inv, TypeOK, K
<1>3. call' = [call EXCEPT ![t] = new]
  BY <1>0, <1>2 DEF copy_process_attach
<1>4. /\ c \in Task /\ call[t].kind \in CloneKind /\ child \in TaskStruct
  BY <1>0, <1>1, <1>2, CallShape
<1>5. /\ task[c].state = "DEAD" /\ child.state = "NEW" /\ ~ child.on_rq
      /\ child.sched_class \in Classes
      /\ ltr_policy(child.policy) <=> child.sched_class = "lottery"
  BY <1>0, <1>1 DEF Inv, ForksPrivate
<1>6. ~ task[c].on_rq /\ call[c] = NoCall /\ ~ cond[c]
  BY <1>4, <1>5 DEF Inv, TaskStates
<1>7. task[t].on_rq /\ task[t].state = "RUNNING" /\ c # t
  BY <1>1, <1>5, CurrRuns
<1>8. new.op = "fork" /\ new.p = c /\ new.pc \in {"grant", "wake"} /\ new \in CallType
  <2>1. new \in [op : {"fork"}, pc : {"grant", "wake"}, kind : CloneKind, p : Task]
    BY <1>4
  <2> QED BY <2>1, CallTypes
<1> HIDE DEF new, child
<1>9. call'[t] = new /\ call' \in [Task -> CallType] /\ \A u \in Task \ {t} : call'[u] = call[u]
  BY <1>2, <1>3, <1>8
<1>10. task'[c] = child /\ \A p \in Task \ {c} : task'[p] = task[p]
  BY <1>1, <1>2, <1>4
<1>11. Good(n) /\ task' = n.task /\ rq' = n.rq
  <2>1. child.on_rq = task[c].on_rq
    BY <1>2, <1>4, <1>5, <1>6 DEF TaskStruct
  <2>2. Good(n)
    BY <1>2, <1>4, <1>5, <2>1, GoodUpdate
  <2> QED BY <1>1, <1>2, <2>2 DEF Good, KState
<1> HIDE DEF n
<1>12. \A p \in Task : Sound(p)'
  <2>1. Sound(c)'
    <3>1. call'[c] = NoCall /\ NoCall.op = "none"
      BY <1>4, <1>6, <1>7, <1>9 DEF NoCall
    <3> QED BY <1>5, <1>10, <3>1 DEF Sound
  <2>2. Sound(t)'
    <3>1. task'[t] = task[t]
      BY <1>7, <1>10
    <3> QED BY <1>1, <1>7, <1>8, <1>9, <3>1, InvSound DEF Sound
  <2> QED BY <1>1, <1>9, <1>10, <2>1, <2>2, Untouched
<1>13. ForksPrivate'
  <2>1. call'[t].op = "fork" /\ call'[t].p = call[t].p /\ call'[t].pc \in {"grant", "wake"}
    BY <1>0, <1>8, <1>9
  <2>2. task'[call[t].p].state = "NEW"
    BY <1>0, <1>5, <1>10
  <2>3. \A p \in Task \ {call[t].p} : task'[p].state = task[p].state
    BY <1>0, <1>10
  <2> QED BY <1>1, <1>9, <2>1, <2>2, <2>3, ForkGoesOn
<1>14. RequestsLottery'
  BY <1>8, <1>9, RequestsKept
<1>15. rq'.curr \in Task => task'[rq'.curr].on_rq
  BY <1>1, <1>7, <1>10
<1> QED BY <1>1, <1>9, <1>11, <1>12, <1>13, <1>14, <1>15, SoundStep DEF Inv, TypeOK, ListOpsLegal

LEMMA GrantStep ==
  ASSUME Inv, NEW t \in Task, grant_tickets(t)
  PROVE  Inv'
<1>0. PICK c \in Task : c = call[t].p
  <2>1. call[t].op = "fork"
    BY DEF grant_tickets, RunsIn
  <2> QED BY <2>1, ForkChild
<1> DEFINE child == [task[c] EXCEPT !.tickets = GrantedTickets]
           n == [K EXCEPT !.task[c] = child]
           new == [call[t] EXCEPT !.pc = "wake"]
<1>1. /\ rq.curr = t /\ call[t].op = "fork" /\ call[t].pc = "grant"
      /\ task' = [task EXCEPT ![c] = child]
      /\ call' = [call EXCEPT ![t] = new]
      /\ UNCHANGED <<rq, cond, waking, fault>>
  BY <1>0 DEF grant_tickets, RunsIn
<1>2. /\ Good(K) /\ K.task = task /\ K.rq = rq /\ call \in [Task -> CallType]
      /\ task \in [Task \cup {Idle} -> TaskStruct]
  BY InvGood DEF Inv, TypeOK, K
<1>3. call[t] \in [op : {"fork"}, pc : {"grant", "wake"}, kind : CloneKind, p : Task]
  BY <1>1, <1>2, CallShape
<1>4. c \in Task /\ task[c].state = "NEW"
  BY <1>0, <1>1, <1>3 DEF Inv, ForksPrivate
<1>5. ~ task[c].on_rq /\ call[c] = NoCall /\ Sound(c)
  BY <1>4, InvSound DEF Inv, TaskStates
<1>6. task[t].on_rq /\ task[t].state = "RUNNING" /\ c # t
  BY <1>1, <1>4, CurrRuns
<1>7. /\ child \in TaskStruct /\ child.state = "NEW" /\ child.on_rq = task[c].on_rq
      /\ child.sched_class = task[c].sched_class /\ child.policy = task[c].policy
      /\ child.sched_class \in Classes
  <2>1. task[c] \in TaskStruct /\ task[c].sched_class \in Classes
    BY <1>2, <1>4 DEF Good, NoneIdle
  <2> QED BY <1>4, <2>1 DEF TaskStruct, GrantedTickets
<1>8. new.op = "fork" /\ new.p = c /\ new.pc = "wake" /\ new \in CallType
  <2>1. new \in [op : {"fork"}, pc : {"grant", "wake"}, kind : CloneKind, p : Task]
    BY <1>0, <1>3
  <2> QED BY <1>0, <1>3, <2>1, CallTypes
<1> HIDE DEF new, child
<1>9. call'[t] = new /\ call' \in [Task -> CallType] /\ \A u \in Task \ {t} : call'[u] = call[u]
  BY <1>1, <1>2, <1>8
<1>10. task'[c] = child /\ \A p \in Task \ {c} : task'[p] = task[p]
  BY <1>1, <1>2, <1>4
<1>11. Good(n) /\ task' = n.task /\ rq' = n.rq
  <2>1. Good(n)
    BY <1>2, <1>4, <1>7, GoodUpdate
  <2> QED BY <1>1, <1>2, <2>1 DEF Good, KState
<1> HIDE DEF n
<1>12. \A p \in Task : Sound(p)'
  <2>1. Sound(c)'
    <3>1. call'[c] = NoCall /\ NoCall.op = "none"
      BY <1>4, <1>5, <1>6, <1>9 DEF NoCall
    <3>2. ~ task'[c].on_rq /\ task'[c].state = "NEW"
      BY <1>5, <1>7, <1>10
    <3>3. ltr_policy(task'[c].policy) <=> task'[c].sched_class = "lottery"
      BY <1>4, <1>5, <1>7, <1>10 DEF Sound
    <3> QED BY <3>1, <3>2, <3>3 DEF Sound
  <2>2. Sound(t)'
    <3>1. task'[t] = task[t]
      BY <1>6, <1>10
    <3> QED BY <1>1, <1>6, <1>8, <1>9, <3>1, InvSound DEF Sound
  <2> QED BY <1>1, <1>9, <1>10, <2>1, <2>2, Untouched
<1>13. ForksPrivate'
  <2>1. call'[t].op = "fork" /\ call'[t].p = call[t].p /\ call'[t].pc = "wake"
    BY <1>0, <1>8, <1>9
  <2>2. task'[call[t].p].state = "NEW"
    BY <1>0, <1>7, <1>10
  <2>3. \A p \in Task \ {call[t].p} : task'[p].state = task[p].state
    BY <1>0, <1>10
  <2> QED BY <1>1, <1>9, <2>1, <2>2, <2>3, ForkGoesOn
<1>14. RequestsLottery'
  BY <1>8, <1>9, RequestsKept
<1>15. rq'.curr \in Task => task'[rq'.curr].on_rq
  BY <1>1, <1>6, <1>10
<1> QED BY <1>1, <1>9, <1>11, <1>12, <1>13, <1>14, <1>15, SoundStep DEF Inv, TypeOK, ListOpsLegal

LEMMA CloneWakeStep ==
  ASSUME Inv, NEW t \in Task, kernel_clone_wake(t)
  PROVE  Inv'
<1>0. PICK c \in Task : c = call[t].p
  <2>1. call[t].op = "fork"
    BY DEF kernel_clone_wake, RunsIn
  <2> QED BY <2>1, ForkChild
<1>1. /\ rq.curr = t /\ call[t].op = "fork" /\ call[t].pc = "wake"
      /\ call' = [call EXCEPT ![t] = NoCall]
      /\ UNCHANGED <<cond, waking>>
  BY DEF kernel_clone_wake, RunsIn
<1>2. PICK preempt \in BOOLEAN : Commit(wake_up_new_task(K, c, preempt))
  BY <1>0 DEF kernel_clone_wake
<1> DEFINE k == wake_up_new_task(K, c, preempt)
<1>3. /\ Good(K) /\ K.task = task /\ K.rq = rq /\ K.fault = fault /\ call \in [Task -> CallType]
      /\ task \in [Task \cup {Idle} -> TaskStruct]
  BY InvGood DEF Inv, TypeOK, K
<1>4. c \in Task /\ task[c].state = "NEW"
  BY <1>0, <1>1, <1>3, CallShape DEF Inv, ForksPrivate
<1>5. ~ task[c].on_rq /\ call[c] = NoCall /\ Sound(c) /\ task[c] \in TaskStruct
  BY <1>3, <1>4, InvSound DEF Inv, TaskStates
<1>6. task[t].on_rq /\ task[t].state = "RUNNING" /\ c # t
  BY <1>1, <1>4, CurrRuns
<1>7. WorksOn(K, k, c) /\ k.task[c] = [task[c] EXCEPT !.state = "RUNNING", !.on_rq = TRUE]
  <2>1. Good(K)
    BY <1>3
  <2>2. ~ K.task[c].on_rq
    BY <1>3, <1>5
  <2>3. K.task[c] = task[c]
    BY <1>3
  <2>4. WorksOn(K, k, c) /\ k.task[c] = [K.task[c] EXCEPT !.state = "RUNNING", !.on_rq = TRUE]
    BY <2>1, <2>2, WakeNewGood
  <2> QED BY <2>3, <2>4
<1>8. task' = k.task /\ rq' = k.rq /\ fault' = k.fault
  BY <1>2 DEF Commit
<1> HIDE DEF k
<1>9. Good(k) /\ fault' = fault /\ rq'.curr = rq.curr
  BY <1>3, <1>7, <1>8 DEF WorksOn
<1>10. /\ \A p \in Task \ {c} : task'[p] = task[p]
       /\ task'[c] = [task[c] EXCEPT !.state = "RUNNING", !.on_rq = TRUE]
  BY <1>3, <1>7, <1>8 DEF WorksOn
<1>11. call'[t] = NoCall /\ call'[t].op = "none" /\ call' \in [Task -> CallType]
       /\ \A u \in Task \ {t} : call'[u] = call[u]
  BY <1>1, <1>3, CallTypes DEF NoCall
<1>12. \A p \in Task : Sound(p)'
  <2>1. Sound(c)'
    <3>1. call'[c] = NoCall /\ NoCall.op = "none"
      BY <1>4, <1>5, <1>6, <1>11 DEF NoCall
    <3>2. /\ task'[c].on_rq /\ task'[c].state = "RUNNING"
          /\ task'[c].policy = task[c].policy /\ task'[c].sched_class = task[c].sched_class
      BY <1>5, <1>10 DEF TaskStruct
    <3>3. ltr_policy(task'[c].policy) <=> task'[c].sched_class = "lottery"
      BY <1>4, <1>5, <3>2 DEF Sound
    <3> QED BY <3>1, <3>2, <3>3 DEF Sound
  <2>2. Sound(t)'
    <3>1. task'[t] = task[t]
      BY <1>6, <1>10
    <3> QED BY <1>1, <1>6, <1>11, <3>1, InvSound DEF Sound
  <2> QED BY <1>1, <1>10, <1>11, <2>1, <2>2, Untouched
<1>13. ForksPrivate'
  <2>1. \A u, v \in Task : call[u].op = "fork" /\ call[v].op = "fork" /\ call[u].p = call[v].p => u = v
    BY DEF Inv, ForksPrivate
  <2>2. \A u \in Task : call'[u].op = "fork" => u # t /\ call'[u] = call[u]
    BY <1>11
  <2>3. \A u \in Task : call'[u].op = "fork" => task'[call'[u].p] = task[call[u].p]
    <3> SUFFICES ASSUME NEW u \in Task, call'[u].op = "fork" PROVE task'[call'[u].p] = task[call[u].p]
      OBVIOUS
    <3>1. call'[u] = call[u] /\ u # t
      BY <2>2
    <3>2. call[u].p \in Task /\ call[u].p # c
      BY <1>0, <1>1, <2>1, <3>1, ForkChild
    <3> QED BY <1>10, <3>1, <3>2
  <2> QED BY <2>2, <2>3 DEF Inv, ForksPrivate
<1>14. RequestsLottery'
  BY <1>11, RequestsKept
<1>15. rq'.curr \in Task => task'[rq'.curr].on_rq
  BY <1>1, <1>6, <1>9, <1>10
<1> QED BY <1>1, <1>8, <1>9, <1>11, <1>12, <1>13, <1>14, <1>15, SoundStep DEF Inv, TypeOK, ListOpsLegal

\* A task that exits leaves the queue for good.
LEMMA TaskDeadStep ==
  ASSUME Inv, NEW t \in Task, do_task_dead(t)
  PROVE  Inv'
<1> DEFINE dead == [task[t] EXCEPT !.state = "DEAD"]
           j == [K EXCEPT !.task[t].state = "DEAD"]
<1>1. /\ rq.curr = t /\ call[t] = NoCall /\ call[t].op = "none"
      /\ cond' = [cond EXCEPT ![t] = FALSE]
      /\ UNCHANGED <<call, waking>>
  BY DEF do_task_dead, Runs, NoCall
<1>2. PICK k \in __schedule(j, "SM_NONE") : Commit(k)
  BY DEF do_task_dead
<1>3. /\ Good(K) /\ K.task = task /\ K.rq = rq /\ K.fault = fault
      /\ task \in [Task \cup {Idle} -> TaskStruct] /\ call \in [Task -> CallType]
      /\ cond \in [Task -> BOOLEAN] /\ task[t].sched_class \in Classes
  BY InvGood DEF Inv, TypeOK, K, Good, NoneIdle
<1>4. task[t].on_rq /\ task[t].state = "RUNNING"
  BY <1>1, CurrRuns
<1>5. /\ dead \in TaskStruct /\ dead.state = "DEAD" /\ dead.on_rq = task[t].on_rq
      /\ dead.sched_class = task[t].sched_class
  BY <1>3 DEF TaskStruct, TaskState
<1>6. j = [K EXCEPT !.task[t] = dead] /\ j.task = [task EXCEPT ![t] = dead]
      /\ j.rq = rq /\ j.fault = fault
  BY <1>3 DEF Good, KState
<1> HIDE DEF j
<1>7. Good(j)
  <2> HIDE DEF dead
  <2> QED BY <1>3, <1>5, <1>6, GoodUpdate
<1> HIDE DEF dead
<1>8. j.task[t] = dead /\ j.task[t].on_rq /\ j.rq.curr = t
  <2>1. j.task[t] = dead
    BY <1>3, <1>6
  <2>2. dead.on_rq
    BY <1>4, <1>5
  <2> QED BY <1>1, <1>6, <2>1, <2>2
<1> DEFINE prev == j.rq.curr
<1>9. /\ Good(k) /\ k.fault = j.fault
      /\ k.rq.curr \in Task => k.task[k.rq.curr].on_rq
      /\ \/ k.task = j.task /\ ("SM_NONE" = "SM_PREEMPT" \/ j.task[prev].state = "RUNNING")
         \/ /\ "SM_NONE" # "SM_PREEMPT"
            /\ j.task[prev].state = "INTERRUPTIBLE"
            /\ k.task = [j.task EXCEPT ![prev] = [@ EXCEPT !.state = "RUNNING"]]
         \/ /\ "SM_NONE" # "SM_PREEMPT"
            /\ j.task[prev].state # "RUNNING"
            /\ k.task = [j.task EXCEPT ![prev] = [@ EXCEPT !.on_rq = FALSE]]
  <2>1. prev \in Task /\ j.task[prev].on_rq
    BY <1>8
  <2>2. k \in __schedule(j, "SM_NONE")
    BY <1>2
  <2> QED BY <1>7, <2>1, <2>2, ScheduleGood
<1>10. k.task = [j.task EXCEPT ![t] = [@ EXCEPT !.on_rq = FALSE]]
  BY <1>5, <1>8, <1>9
<1>11. task' = k.task /\ rq' = k.rq /\ fault' = fault
  BY <1>2, <1>6, <1>9 DEF Commit
<1>12. /\ \A p \in Task \ {t} : task'[p] = task[p]
       /\ task'[t] = [dead EXCEPT !.on_rq = FALSE]
  BY <1>3, <1>6, <1>8, <1>10, <1>11
<1>13. task'[t].state = "DEAD" /\ ~ task'[t].on_rq /\ cond'[t] = FALSE
       /\ \A p \in Task \ {t} : cond'[p] = cond[p]
  BY <1>1, <1>3, <1>5, <1>12 DEF TaskStruct
<1>14. \A p \in Task : Sound(p)'
  <2>1. Sound(t)'
    BY <1>1, <1>13 DEF Sound
  <2> QED BY <1>1, <1>12, <1>13, <2>1, Untouched
<1>15. ForksPrivate' /\ RequestsLottery'
  BY <1>1, <1>4, <1>12, ForksKept, RequestsKept
<1>16. rq'.curr \in Task => task'[rq'.curr].on_rq
  BY <1>9, <1>11
<1>17. call' \in [Task -> CallType] /\ cond' \in [Task -> BOOLEAN]
  BY <1>1, <1>3
<1> QED BY <1>1, <1>9, <1>11, <1>14, <1>15, <1>16, <1>17, SoundStep DEF Inv, TypeOK, ListOpsLegal

\* The checks, made without the lock, only record the request.
LEMMA SetschedulerCheckStep ==
  ASSUME Inv, NEW t \in Task, NEW p \in Task, NEW request \in Requests,
         setscheduler_check(t, p, request)
  PROVE  Inv'
<1> DEFINE attr == fill_attr(request, task[p])
           r == recheck(task[p], attr.policy, attr)
           new == [op |-> "setsched", p |-> p, attr |-> attr, policy |-> r.policy,
                   oldpolicy |-> r.oldpolicy, reset_on_fork |-> r.reset_on_fork]
<1>1. /\ rq.curr = t /\ call[t] = NoCall
      /\ \/ r.allowed /\ call' = [call EXCEPT ![t] = new]
         \/ call' = call
      /\ UNCHANGED <<task, rq, cond, waking, fault>>
  BY DEF setscheduler_check, Runs
<1>2. /\ Good(K) /\ K.task = task /\ K.rq = rq /\ call \in [Task -> CallType]
      /\ task[p] \in TaskStruct
  BY InvGood DEF Inv, TypeOK, K
<1>3. task[t].on_rq /\ task[t].state = "RUNNING"
  BY <1>1, CurrRuns DEF NoCall
<1>4. attr \in RequestType
  BY <1>2, RequestAssumption, FillAttrType
<1> HIDE DEF attr
<1>5. /\ r.policy \in Policy
      /\ r.oldpolicy \in Policy \cup {SETPARAM_POLICY}
      /\ r.reset_on_fork \in BOOLEAN
      /\ r.allowed => ltr_policy(r.policy)
  <2>1. attr.policy \in Policy \cup {SETPARAM_POLICY}
    BY <1>4 DEF RequestType
  <2> QED BY <1>2, <1>4, <2>1, RecheckLottery
<1> HIDE DEF r
<1>6. new \in CallType /\ new.op = "setsched" /\ new.policy = r.policy
  <2>1. new \in [op : {"setsched"}, p : Task, attr : RequestType, policy : Policy,
                 oldpolicy : Policy \cup {SETPARAM_POLICY}, reset_on_fork : BOOLEAN]
    BY <1>4, <1>5
  <2> QED BY <2>1, CallTypes
<1> HIDE DEF new
<1>7. call' \in [Task -> CallType] /\ \A u \in Task \ {t} : call'[u] = call[u]
  BY <1>1, <1>2, <1>6
<1>8. call'[t] = call[t] \/ (call'[t] = new /\ r.allowed)
  BY <1>1, <1>2
<1>9. \A q \in Task : Sound(q)'
  <2>1. Sound(t)'
    <3>1. call'[t] = NoCall \/ call'[t].op = "setsched"
      BY <1>1, <1>6, <1>8
    <3> QED BY <1>1, <1>3, <3>1, InvSound DEF Sound, NoCall
  <2> QED BY <1>1, <1>7, <2>1, Untouched
<1>10. ForksPrivate'
  BY <1>1, <1>6, <1>7, <1>8, ForksKept
<1>11. RequestsLottery'
  <2> SUFFICES ASSUME NEW u \in Task, call'[u].op = "setsched" PROVE ltr_policy(call'[u].policy)
    BY DEF RequestsLottery
  <2>1. CASE call'[u] = call[u]
    BY <2>1 DEF Inv, RequestsLottery
  <2>2. CASE call'[u] # call[u]
    <3>1. call'[u] = new /\ r.allowed
      BY <1>7, <1>8, <2>2
    <3> QED BY <1>5, <1>6, <3>1
  <2> QED BY <2>1, <2>2
<1>12. rq'.curr \in Task => task'[rq'.curr].on_rq
  BY <1>1, <1>3
<1> QED BY <1>1, <1>2, <1>7, <1>9, <1>10, <1>11, <1>12, SoundStep DEF Inv, TypeOK, ListOpsLegal

\* The kernel changes the parameters of p, and the caller's path ends or goes
\* on with another request for the lottery policy.
LEMMA ParametersStep ==
  ASSUME Inv, NEW t \in Task, NEW p \in Task, rq.curr = t, call[t].op # "wait",
         NEW k, Good(k), task' = k.task, rq' = k.rq,
         k.rq.curr = t, k.fault = fault, fault' = fault, UNCHANGED <<cond, waking>>,
         call' \in [Task -> CallType],
         \A u \in Task \ {t} : call'[u] = call[u],
         call'[t].op \notin {"wait", "fork"},
         call'[t].op = "setsched" => ltr_policy(call'[t].policy),
         \A q \in Task \ {p} : task'[q] = task[q],
         task'[p].state = task[p].state, task[p].on_rq => task'[p].on_rq,
         task'[p].on_rq => task[p].on_rq,
         \/ task'[p].policy = task[p].policy /\ task'[p].sched_class = task[p].sched_class
         \/ ltr_policy(task'[p].policy) /\ task'[p].sched_class = "lottery"
  PROVE  Inv'
<1>1. task[t].on_rq /\ task[t].state = "RUNNING"
  BY CurrRuns
<1>2. \A q \in Task : Sound(q)'
  <2> SUFFICES ASSUME NEW q \in Task PROVE Sound(q)'
    OBVIOUS
  <2>1. Sound(q)
    BY InvSound
  <2>2. task'[q].state = task[q].state /\ (task'[q].on_rq <=> task[q].on_rq)
    OBVIOUS
  <2>3. (ltr_policy(task[q].policy) <=> task[q].sched_class = "lottery")
        => (ltr_policy(task'[q].policy) <=> task'[q].sched_class = "lottery")
    OBVIOUS
  <2>4. CASE q = t
    <3>1. task'[q].on_rq /\ task'[q].state = "RUNNING" /\ call'[q].op # "wait"
      BY <1>1, <2>2, <2>4
    <3>2. ltr_policy(task'[q].policy) <=> task'[q].sched_class = "lottery"
      BY <1>1, <2>1, <2>3, <2>4 DEF Sound
    <3> QED BY <3>1, <3>2 DEF Sound
  <2>5. CASE q # t
    <3>1. call'[q] = call[q] /\ cond' = cond /\ waking' = waking
      BY <2>5
    <3> QED BY <2>1, <2>2, <2>3, <3>1 DEF Sound
  <2> QED BY <2>4, <2>5
<1>3. ForksPrivate'
  <2>1. \A q \in Task : task'[q].state = task[q].state
    OBVIOUS
  <2> QED BY <2>1, ForksKept
<1>4. RequestsLottery'
  BY DEF Inv, RequestsLottery
<1>5. rq'.curr \in Task => task'[rq'.curr].on_rq
  <2>1. task'[t].on_rq
    BY <1>1
  <2> QED BY <2>1
<1>6. cond' \in [Task -> BOOLEAN] /\ waking' \in SUBSET Task
      /\ fault' \in {"none", "update_curr", "err_ptr"}
  BY DEF Inv, TypeOK, ListOpsLegal
<1> QED BY <1>2, <1>3, <1>4, <1>5, <1>6, SoundStep

LEMMA SetschedulerLockedStep ==
  ASSUME Inv, NEW t \in Task, setscheduler_locked(t)
  PROVE  Inv'
<1>1. rq.curr = t /\ call[t].op = "setsched" /\ UNCHANGED <<cond, waking>>
  BY DEF setscheduler_locked, RunsIn
<1>2. /\ Good(K) /\ K.task = task /\ K.rq = rq /\ K.fault = fault
      /\ call \in [Task -> CallType] /\ task \in [Task \cup {Idle} -> TaskStruct]
  BY InvGood DEF Inv, TypeOK, K
<1>3. PICK c : c = call[t]
  OBVIOUS
<1>4. c \in [op : {"setsched"}, p : Task, attr : RequestType, policy : Policy,
             oldpolicy : Policy \cup {SETPARAM_POLICY}, reset_on_fork : BOOLEAN]
  BY <1>1, <1>2, <1>3, CallShape
<1>5. c.p \in Task /\ c.policy \in Policy /\ c.attr \in RequestType /\ c.reset_on_fork \in BOOLEAN
      /\ ltr_policy(c.policy)
  BY <1>1, <1>3, <1>4 DEF Inv, RequestsLottery
<1>6. PICK p \in Task : p = c.p
  BY <1>5
<1> DEFINE flagged == [task[p] EXCEPT !.sched_reset_on_fork = c.reset_on_fork]
           k == [K EXCEPT !.task[p].sched_reset_on_fork = c.reset_on_fork]
           r == recheck(task[p], SETPARAM_POLICY, c.attr)
<1>7. task[p] \in TaskStruct /\ task[p].sched_class \in Classes
  BY <1>2 DEF Good, NoneIdle
<1>8. /\ flagged \in TaskStruct /\ flagged.state = task[p].state /\ flagged.on_rq = task[p].on_rq
      /\ flagged.policy = task[p].policy /\ flagged.sched_class = task[p].sched_class
  BY <1>5, <1>7 DEF TaskStruct
<1>9. k = [K EXCEPT !.task[p] = flagged] /\ k.task = [task EXCEPT ![p] = flagged]
      /\ k.rq = rq /\ k.fault = fault
  BY <1>2 DEF Good, KState
<1> HIDE DEF k
<1>10. Good(k)
  <2> HIDE DEF flagged
  <2> QED BY <1>2, <1>7, <1>8, <1>9, GoodUpdate
<1> HIDE DEF flagged
<1>11. k.task[p] = flagged /\ \A q \in Task \ {p} : k.task[q] = task[q]
  BY <1>2, <1>9
<1>12. call[t].op # "wait" /\ NoCall.op = "none"
  BY <1>1 DEF NoCall
<1>13. CASE Commit(k) /\ call' = [call EXCEPT ![t] = NoCall]
  <2>1. /\ call'[t] = NoCall /\ call' \in [Task -> CallType]
        /\ \A u \in Task \ {t} : call'[u] = call[u]
    BY <1>2, <1>13, CallTypes
  <2>2. task' = k.task /\ rq' = k.rq /\ fault' = k.fault
    BY <1>13 DEF Commit
  <2>3. /\ \A q \in Task \ {p} : task'[q] = task[q]
        /\ task'[p].state = task[p].state
        /\ task'[p].policy = task[p].policy /\ task'[p].sched_class = task[p].sched_class
    BY <1>8, <1>11, <2>2
  <2>4. (task[p].on_rq => task'[p].on_rq) /\ (task'[p].on_rq => task[p].on_rq)
    BY <1>8, <1>11, <2>2
  <2>5. call'[t].op = "none"
    BY <1>12, <2>1
  <2> QED BY <1>1, <1>9, <1>10, <1>12, <2>1, <2>2, <2>3, <2>4, <2>5, ParametersStep
<1>14. CASE /\ call' = [call EXCEPT ![t] =
                           IF r.allowed THEN [c EXCEPT !.policy = r.policy, !.oldpolicy = r.oldpolicy,
                                                       !.reset_on_fork = r.reset_on_fork]
                           ELSE NoCall]
            /\ UNCHANGED <<task, rq, fault>>
  <2> DEFINE again == [c EXCEPT !.policy = r.policy, !.oldpolicy = r.oldpolicy,
                                !.reset_on_fork = r.reset_on_fork]
  <2>1. /\ r.policy \in Policy
        /\ r.oldpolicy \in Policy \cup {SETPARAM_POLICY}
        /\ r.reset_on_fork \in BOOLEAN
        /\ r.allowed => ltr_policy(r.policy)
    BY <1>5, <1>7, RecheckLottery
  <2> HIDE DEF r
  <2>2. again \in CallType /\ again.op = "setsched" /\ again.policy = r.policy
    <3>1. again \in [op : {"setsched"}, p : Task, attr : RequestType, policy : Policy,
                     oldpolicy : Policy \cup {SETPARAM_POLICY}, reset_on_fork : BOOLEAN]
      BY <1>4, <2>1
    <3>2. again.op = "setsched" /\ again.policy = r.policy
      BY <1>4
    <3> QED BY <3>1, <3>2, CallTypes
  <2> HIDE DEF again
  <2>3. call' = [call EXCEPT ![t] = IF r.allowed THEN again ELSE NoCall]
    BY <1>14 DEF again
  <2>4. /\ call' \in [Task -> CallType] /\ \A u \in Task \ {t} : call'[u] = call[u]
        /\ (r.allowed /\ call'[t] = again) \/ call'[t] = NoCall
    BY <1>2, <2>2, <2>3, CallTypes
  <2>5. call'[t].op \notin {"wait", "fork"} /\ (call'[t].op = "setsched" => ltr_policy(call'[t].policy))
    BY <1>12, <2>1, <2>2, <2>4
  <2>6. task' = task /\ rq' = rq /\ fault' = fault
    BY <1>14
  <2> QED BY <1>1, <1>2, <1>12, <2>4, <2>5, <2>6, ParametersStep
<1>15. CASE /\ \E new \in {change(k, c.p, c.policy, c.attr, preempt) : preempt \in BOOLEAN} : Commit(new)
            /\ call' = [call EXCEPT ![t] = NoCall]
  <2>1. PICK preempt \in BOOLEAN : Commit(change(k, p, c.policy, c.attr, preempt))
    BY <1>6, <1>15
  <2> DEFINE n == change(k, p, c.policy, c.attr, preempt)
  <2>2. /\ WorksOn(k, n, p)
        /\ n.task[p].state = k.task[p].state /\ n.task[p].on_rq = k.task[p].on_rq
        /\ \/ n.task[p].policy = k.task[p].policy /\ n.task[p].sched_class = k.task[p].sched_class
           \/ n.task[p].policy = c.policy /\ n.task[p].sched_class = "lottery"
    BY <1>5, <1>10, ChangeGood
  <2>3. task' = n.task /\ rq' = n.rq /\ fault' = n.fault
    BY <2>1 DEF Commit
  <2> HIDE DEF n
  <2>4. Good(n) /\ n.fault = fault /\ n.rq.curr = t
    BY <1>1, <1>9, <2>2 DEF WorksOn
  <2>5. \A q \in Task \ {p} : task'[q] = task[q]
    <3>1. n.task = [k.task EXCEPT ![p] = n.task[p]]
      BY <2>2 DEF WorksOn
    <3>2. k.task \in [Task \cup {Idle} -> TaskStruct]
      BY <1>10 DEF Good, KState
    <3>3. \A q \in Task \ {p} : n.task[q] = k.task[q]
      BY <3>1, <3>2
    <3> QED BY <1>11, <2>3, <3>3
  <2>6. task'[p].state = task[p].state
    BY <1>8, <1>11, <2>2, <2>3
  <2>7. (task[p].on_rq => task'[p].on_rq) /\ (task'[p].on_rq => task[p].on_rq)
    BY <1>8, <1>11, <2>2, <2>3
  <2>8. \/ task'[p].policy = task[p].policy /\ task'[p].sched_class = task[p].sched_class
        \/ ltr_policy(task'[p].policy) /\ task'[p].sched_class = "lottery"
    BY <1>5, <1>8, <1>11, <2>2, <2>3
  <2>9. /\ call'[t] = NoCall /\ call'[t].op = "none" /\ call' \in [Task -> CallType]
        /\ \A u \in Task \ {t} : call'[u] = call[u]
    BY <1>2, <1>12, <1>15, CallTypes
  <2> QED BY <1>1, <1>12, <2>3, <2>4, <2>5, <2>6, <2>7, <2>8, <2>9, ParametersStep
<1>16. \/ Commit(k) /\ call' = [call EXCEPT ![t] = NoCall]
       \/ /\ call' = [call EXCEPT ![t] =
                         IF r.allowed THEN [c EXCEPT !.policy = r.policy, !.oldpolicy = r.oldpolicy,
                                                     !.reset_on_fork = r.reset_on_fork]
                         ELSE NoCall]
          /\ UNCHANGED <<task, rq, fault>>
       \/ /\ \E new \in {change(k, c.p, c.policy, c.attr, preempt) : preempt \in BOOLEAN} : Commit(new)
          /\ call' = [call EXCEPT ![t] = NoCall]
  BY <1>3, <1>6 DEF setscheduler_locked, k
<1> QED BY <1>13, <1>14, <1>15, <1>16

LEMMA ReniceStep ==
  ASSUME Inv, NEW t \in Task, NEW p \in Task, NEW nice \in Nices, renice(t, p, nice)
  PROVE  Inv'
<1>1. rq.curr = t /\ call[t] = NoCall /\ call[t].op = "none" /\ UNCHANGED <<call, cond, waking>>
  BY DEF renice, Runs, NoCall
<1>2. /\ Good(K) /\ K.task = task /\ K.rq = rq /\ K.fault = fault
      /\ call \in [Task -> CallType] /\ task \in [Task \cup {Idle} -> TaskStruct]
  BY InvGood DEF Inv, TypeOK, K
<1>3. PICK preempt \in BOOLEAN : Commit(set_user_nice(K, p, nice, preempt))
  BY DEF renice
<1> DEFINE k == set_user_nice(K, p, nice, preempt)
<1>4. /\ WorksOn(K, k, p)
      /\ k.task[p].state = task[p].state /\ k.task[p].on_rq = task[p].on_rq
      /\ k.task[p].policy = task[p].policy /\ k.task[p].sched_class = task[p].sched_class
  <2>1. nice \in Int
    BY RequestAssumption
  <2> QED BY <1>2, <2>1, NiceGood
<1>5. task' = k.task /\ rq' = k.rq /\ fault' = k.fault
  BY <1>3 DEF Commit
<1> HIDE DEF k
<1>6. Good(k) /\ k.fault = fault /\ k.rq.curr = t /\ \A q \in Task \ {p} : task'[q] = task[q]
  BY <1>1, <1>2, <1>4, <1>5 DEF WorksOn
<1>7. (task[p].on_rq => task'[p].on_rq) /\ (task'[p].on_rq => task[p].on_rq)
  BY <1>4, <1>5
<1> QED BY <1>1, <1>2, <1>4, <1>5, <1>6, <1>7, ParametersStep

-----------------------------------------------------------------------------
(* The theorems.                                                           *)

LEMMA InitInv ==
  ASSUME Init
  PROVE  Inv
<1>a. PICK processes \in SUBSET Task : \E first \in processes :
         /\ task = [p \in Task \cup {Idle} |->
                       IF p \in processes THEN [FreeTask EXCEPT !.state = "RUNNING", !.on_rq = TRUE,
                                                          !.tickets = GrantedTickets]
                       ELSE IF p = Idle THEN [FreeTask EXCEPT !.state = "RUNNING", !.on_rq = TRUE,
                                                              !.sched_class = "idle"]
                       ELSE FreeTask]
         /\ rq = [curr |-> first, need_resched |-> FALSE, ltr |-> init_ltr_rq,
                  nr_running |-> Cardinality(processes),
                  queued |-> [fair |-> processes, rt |-> {}, dl |-> {}]]
  BY DEF Init
<1> DEFINE process == [FreeTask EXCEPT !.state = "RUNNING", !.on_rq = TRUE, !.tickets = GrantedTickets]
           idle == [FreeTask EXCEPT !.state = "RUNNING", !.on_rq = TRUE, !.sched_class = "idle"]
<1>1. PICK first \in processes :
         /\ task = [p \in Task \cup {Idle} |->
                       IF p \in processes THEN process ELSE IF p = Idle THEN idle ELSE FreeTask]
         /\ rq = [curr |-> first, need_resched |-> FALSE, ltr |-> init_ltr_rq,
                  nr_running |-> Cardinality(processes),
                  queued |-> [fair |-> processes, rt |-> {}, dl |-> {}]]
  BY <1>a
<1>2. /\ call = [p \in Task |-> NoCall] /\ cond = [p \in Task |-> FALSE]
      /\ waking = {} /\ fault = "none"
  BY DEF Init
<1>3. FreeTask \in TaskStruct /\ process \in TaskStruct /\ idle \in TaskStruct
  <2>1. FreeTask \in TaskStruct
    BY DEF FreeTask, TaskStruct, TaskState, Policy, DEFAULT_PRIO, MAX_RT_PRIO
  <2>2. process \in TaskStruct
    BY <2>1 DEF TaskStruct, TaskState, GrantedTickets
  <2>3. idle \in TaskStruct
    BY <2>1 DEF TaskStruct, TaskState
  <2> QED BY <2>1, <2>2, <2>3
<1>4. /\ process.state = "RUNNING" /\ process.on_rq /\ process.sched_class = "fair"
      /\ process.policy = "NORMAL"
      /\ FreeTask.state = "DEAD" /\ ~ FreeTask.on_rq /\ FreeTask.sched_class = "fair"
  BY DEF FreeTask
<1> HIDE DEF process, idle
<1>6. \A p \in Task : task[p] = IF p \in processes THEN process ELSE FreeTask
  BY <1>1, IdleAssumption
<1>7. NoCall \in CallType /\ NoCall.op = "none" /\ \A p \in Task : call[p] = NoCall
  BY <1>2, CallTypes DEF NoCall
<1>8. /\ rq.curr = first /\ rq.need_resched = FALSE /\ rq.ltr = init_ltr_rq
      /\ rq.nr_running = Cardinality(processes)
      /\ rq.queued = [fair |-> processes, rt |-> {}, dl |-> {}]
  BY <1>1
<1>9. init_ltr_rq \in ltr_rqType /\ init_ltr_rq.queue = <<>>
  BY WordAssumption DEF init_ltr_rq, ltr_rqType, RandomWord
<1>10. TypeOK
  <2>1. task \in [Task \cup {Idle} -> TaskStruct]
    BY <1>1, <1>3
  <2>2. Cardinality(processes) \in Nat
    BY CountTasks
  <2>3. rq.queued \in [{"fair", "rt", "dl"} -> SUBSET Task]
    BY <1>8
  <2>4. rq \in RunQueue
    BY <1>1, <1>9, <2>2 DEF RunQueue
  <2> QED BY <1>2, <1>7, <2>1, <2>4 DEF TypeOK
<1>11. QueuesMatchTasks
  <2>1. rq.queued["fair"] = processes /\ rq.queued["rt"] = {} /\ rq.queued["dl"] = {}
    BY <1>8
  <2>2. \A p \in Task, class \in {"fair", "rt", "dl"} :
           p \in rq.queued[class] <=> task[p].on_rq /\ task[p].sched_class = class
    BY <1>4, <1>6, <2>1
  <2>3. \A p \in Task : Linked(rq.ltr, p) <=> task[p].on_rq /\ task[p].sched_class = "lottery"
    BY <1>4, <1>6, <1>8, <1>9 DEF Linked
  <2>4. NoDuplicates(rq.ltr.queue)
    BY <1>8, <1>9 DEF NoDuplicates
  <2>5. UNION {rq.queued[class] : class \in {"fair", "rt", "dl"}} = processes
    BY <2>1
  <2> QED BY <1>8, <2>2, <2>3, <2>4, <2>5 DEF QueuesMatchTasks
<1>12. RunnableIsQueued /\ NoLostWakeup /\ ClassFollowsPolicy /\ ListOpsLegal
  <2>1. ~ ltr_policy(process.policy)
    BY <1>4 DEF ltr_policy
  <2>2. RunnableIsQueued
    BY <1>4, <1>6, <1>8 DEF RunnableIsQueued
  <2>3. NoLostWakeup /\ ListOpsLegal
    BY <1>2 DEF NoLostWakeup, ListOpsLegal
  <2>4. ClassFollowsPolicy
    BY <1>4, <1>6, <2>1 DEF ClassFollowsPolicy, Visible
  <2> QED BY <2>2, <2>3, <2>4
<1>13. TaskStates
  BY <1>2, <1>4, <1>6, <1>7 DEF TaskStates
<1>14. WaitLoops /\ ForksPrivate /\ RequestsLottery
  BY <1>7 DEF WaitLoops, ForksPrivate, RequestsLottery
<1> QED BY <1>10, <1>11, <1>12, <1>13, <1>14 DEF Inv

\* Inv is inductive.
LEMMA NextInv ==
  ASSUME Inv, [Next]_vars
  PROVE  Inv'
<1>1. CASE UNCHANGED vars
  BY <1>1 DEF vars, Inv, TypeOK, QueuesMatchTasks, RunnableIsQueued, NoLostWakeup, ClassFollowsPolicy,
              Visible, ListOpsLegal, TaskStates, WaitLoops, ForksPrivate, RequestsLottery
<1>2. CASE Tick
  BY <1>2, TickStep
<1>3. CASE Preempt
  BY <1>3, PreemptStep
<1>4. CASE Halted
  BY <1>1, <1>4 DEF Halted
<1>5. ASSUME NEW t \in Task, TaskStep(t)
      PROVE  Inv'
  <2>1. CASE do_sched_yield(t)
    BY <2>1, YieldStep
  <2>2. CASE set_current_state(t)
    BY <2>2, SetCurrentStateStep
  <2>3. CASE test_condition(t)
    BY <2>3, TestConditionStep
  <2>4. CASE schedule(t)
    BY <2>4, ScheduleStep
  <2>5. CASE dup_task_struct(t)
    BY <2>5, DupTaskStep
  <2>6. CASE copy_process_fails(t)
    BY <2>6, CopyFailsStep
  <2>7. CASE copy_process_sched_fork(t)
    BY <2>7, ForkStep
  <2>8. CASE copy_process_attach(t)
    BY <2>8, AttachStep
  <2>9. CASE grant_tickets(t)
    BY <2>9, GrantStep
  <2>10. CASE kernel_clone_wake(t)
    BY <2>10, CloneWakeStep
  <2>11. CASE do_task_dead(t)
    BY <2>11, TaskDeadStep
  <2>12. CASE \E p \in Task, request \in Requests : setscheduler_check(t, p, request)
    BY <2>12, SetschedulerCheckStep
  <2>13. CASE setscheduler_locked(t)
    BY <2>13, SetschedulerLockedStep
  <2>14. CASE \E p \in Task, nice \in Nices : renice(t, p, nice)
    BY <2>14, ReniceStep
  <2>15. CASE read_runtime(t)
    BY <2>15, ReadRuntimeStep
  <2> QED BY <1>5, <2>1, <2>2, <2>3, <2>4, <2>5, <2>6, <2>7, <2>8, <2>9, <2>10, <2>11, <2>12,
             <2>13, <2>14, <2>15 DEF TaskStep
<1>6. ASSUME NEW t \in Task, set_condition(t)
      PROVE  Inv'
  BY <1>6, SetConditionStep
<1>7. ASSUME NEW t \in Task, wake_up_process(t)
      PROVE  Inv'
  BY <1>7, WakeUpStep
<1> QED BY <1>1, <1>2, <1>3, <1>4, <1>5, <1>6, <1>7 DEF Next

\* Every reachable state satisfies the inductive invariant.
THEOREM KernelInvariant == Spec => []Inv
<1>1. Init => Inv
  BY InitInv
<1>2. Inv /\ [Next]_vars => Inv'
  BY NextInv
<1> QED BY <1>1, <1>2, PTL DEF Spec

\* The task_structs, the run queue and the kernel paths have their types.
THEOREM KernelTypeCorrect == Spec => []TypeOK
<1>1. Inv => TypeOK
  BY DEF Inv
<1> QED BY <1>1, KernelInvariant, PTL

\* p->on_rq, the queue of p's class and rq->nr_running agree, after any
\* sequence of wake-ups, forks, exits and changes of policy.
THEOREM QueuesAlwaysMatch == Spec => []QueuesMatchTasks
<1>1. Inv => QueuesMatchTasks
  BY DEF Inv
<1> QED BY <1>1, KernelInvariant, PTL

\* A runnable task, and the one on the CPU, is on the run queue.
THEOREM RunnableAlwaysQueued == Spec => []RunnableIsQueued
<1>1. Inv => RunnableIsQueued
  BY DEF Inv
<1> QED BY <1>1, KernelInvariant, PTL

\* No wake-up is lost, wherever it meets the sleeper between its test and
\* schedule().
THEOREM WakeupsNeverLost == Spec => []NoLostWakeup
<1>1. Inv => NoLostWakeup
  BY DEF Inv
<1> QED BY <1>1, KernelInvariant, PTL

\* The class of a process is the one its policy asks for.
THEOREM ClassAlwaysFollowsPolicy == Spec => []ClassFollowsPolicy
<1>1. Inv => ClassFollowsPolicy
  BY DEF Inv
<1> QED BY <1>1, KernelInvariant, PTL

\* list_del never meets a node that is not linked.
THEOREM ListOpsAlwaysLegal == Spec => []ListOpsLegal
<1>1. Inv => ListOpsLegal
  BY DEF Inv
<1> QED BY <1>1, KernelInvariant, PTL

-----------------------------------------------------------------------------
(***************************************************************************)
(* core.c drives the lottery class by the protocol of LotteryClass, for    *)
(* every set of tasks, every set of requests and every width of the random *)
(* word: each step of KernelSched is a step of the class, or changes       *)
(* nothing the class can see.  The theorems about the class then hold of   *)
(* the queue in the kernel.                                                *)
(*                                                                         *)
(* The lemmas named Class... compose a step of the class from what a       *)
(* function of core.c did to the run queue.  Those named after a function  *)
(* say what it did; n is the state it leaves.                              *)
(***************************************************************************)

\* The lottery task on the CPU, as LotteryClass sees it.
Curr(k) == IF k.task[k.rq.curr].sched_class = "lottery" THEN k.rq.curr ELSE NULL

\* From k to n the tickets of all tasks stay, and so does the lottery task on
\* the CPU.
SameView(k, n) == Tickets(n) = Tickets(k) /\ Curr(n) = Curr(k)

-----------------------------------------------------------------------------
(* Steps of the class.                                                     *)

LEMMA ClassStays ==
  ASSUME NEW n, Commit(n), SameView(K, n), n.rq.ltr = rq.ltr,
         n.rq.need_resched = rq.need_resched
  PROVE  UNCHANGED Class!vars
BY DEF Commit, SameView, Tickets, Curr, K, Class!vars

\* A task of another class runs.
LEMMA ClassIsElsewhere ==
  ASSUME NEW n, Commit(n), SameView(K, n), Curr(K) = NULL, n.rq.ltr = rq.ltr,
         n.rq.need_resched \in BOOLEAN
  PROVE  Class!Next
<1>1. Class!OtherClass
  BY DEF Commit, SameView, Tickets, Curr, K, Class!OtherClass
<1> QED BY <1>1 DEF Class!Next

LEMMA ClassEnqueues ==
  ASSUME NEW n, Commit(n), SameView(K, n), NEW p \in Task,
         ~ Linked(rq.ltr, p), task[p].tickets = GrantedTickets,
         n.rq.ltr = enqueue_task_lottery(rq.ltr, p, Tickets(K)),
         n.rq.need_resched = (rq.need_resched \/ Curr(K) = NULL)
  PROVE  Class!Next
<1>1. Class!Enqueue(p)
  BY DEF Commit, SameView, Tickets, Curr, K, Class!Enqueue, Class!Linked, Linked,
         Class!enqueue_task_lottery, enqueue_task_lottery
<1> QED BY <1>1 DEF Class!Next

LEMMA ClassSwitches ==
  ASSUME NEW n, Commit(n), Tickets(n) = Tickets(K), NEW p \in Task,
         Curr(n) = Curr(K) \/ (Curr(K) = NULL /\ Curr(n) = p),
         ~ Linked(rq.ltr, p), task[p].tickets = GrantedTickets,
         n.rq.ltr = enqueue_task_lottery(rq.ltr, p, Tickets(K)),
         n.rq.need_resched = rq.need_resched
  PROVE  Class!Next
<1>1. Class!SwitchTo(p)
  BY DEF Commit, Tickets, Curr, K, Class!SwitchTo, Class!Linked, Linked,
         Class!enqueue_task_lottery, enqueue_task_lottery
<1> QED BY <1>1 DEF Class!Next

LEMMA ClassRequeues ==
  ASSUME NEW n, Commit(n), SameView(K, n), NEW p \in Task, Linked(rq.ltr, p),
         n.rq.ltr = enqueue_task_lottery(dequeue_task_lottery(rq.ltr, p, Tickets(K)), p, Tickets(K)),
         n.rq.need_resched = rq.need_resched
  PROVE  Class!Next
<1>1. Class!Requeue(p)
  BY DEF Commit, SameView, Tickets, Curr, K, Class!Requeue, Class!Linked, Linked,
         Class!enqueue_task_lottery, enqueue_task_lottery, Class!dequeue_task_lottery,
         dequeue_task_lottery, Class!Position, Position, Class!RemoveAt, RemoveAt
<1> QED BY <1>1 DEF Class!Next

LEMMA ClassTicks ==
  ASSUME NEW n, Commit(n), SameView(K, n), Curr(K) # NULL, NEW should_preempt \in RandomWord,
         n.rq.ltr = rq.ltr,
         n.rq.need_resched = (rq.need_resched \/ task_tick_lottery(rq.ltr, should_preempt))
  PROVE  Class!Next
<1>1. Class!Tick
  BY DEF Commit, SameView, Tickets, Curr, K, Class!Tick, Class!RandomWord, RandomWord,
         Class!task_tick_lottery, task_tick_lottery
<1> QED BY <1>1 DEF Class!Next

\* The two draws are one.
LEMMA ClassDraws ==
  ASSUME NEW l, NEW tk, NEW E, NEW random
  PROVE  Class!pick_next_task_lottery(l, tk, E, random) = pick_next_task_lottery(l, tk, E, random)
BY DEF Class!pick_next_task_lottery, pick_next_task_lottery, Class!Stop, Stop, Class!Hits, Hits,
       Class!TicketsBefore, TicketsBefore, Class!Min, Min

LEMMA ClassSchedules ==
  ASSUME NEW n, Commit(n), Tickets(n) = Tickets(K), NEW random \in RandomWord,
         \/ n.rq.ltr = rq.ltr
         \/ Curr(K) # NULL /\ n.rq.ltr = dequeue_task_lottery(rq.ltr, Curr(K), Tickets(K)),
         Curr(n) = pick_next_task_lottery(n.rq.ltr, Tickets(K), Task, random),
         n.rq.need_resched = FALSE
  PROVE  Class!Next
<1>1. random \in Class!RandomWord
  BY DEF Class!RandomWord, RandomWord
<1>2. Class!Schedule(n.rq.ltr, random)
  BY ClassDraws DEF Commit, Tickets, Curr, K, Class!Schedule
<1>3. CASE n.rq.ltr = rq.ltr
  <2>1. Class!Reschedule
    BY <1>1, <1>2, <1>3 DEF Class!Reschedule
  <2> QED BY <2>1 DEF Class!Next
<1>4. CASE Curr(K) # NULL /\ n.rq.ltr = dequeue_task_lottery(rq.ltr, Curr(K), Tickets(K))
  <2>1. n.rq.ltr = Class!dequeue_task_lottery(rq.ltr, Curr(K), Tickets(K))
    BY <1>4 DEF Class!dequeue_task_lottery, dequeue_task_lottery, Class!Position, Position,
                Class!RemoveAt, RemoveAt
  <2>2. Class!Block
    BY <1>1, <1>2, <1>4, <2>1 DEF Class!Block, Tickets, Curr, K
  <2> QED BY <2>2 DEF Class!Next
<1> QED BY <1>3, <1>4

LEMMA ClassClones ==
  ASSUME NEW p \in Task, ~ Linked(rq.ltr, p), UNCHANGED rq, Curr(K)' = Curr(K),
         task' = [task EXCEPT ![p] = task'[p]], task'[p].tickets = GrantedTickets,
         task \in [Task \cup {Idle} -> TaskStruct]
  PROVE  Class!Next
<1>1. [q \in Task |-> task'[q].tickets] = [[q \in Task |-> task[q].tickets] EXCEPT ![p] = GrantedTickets]
  OBVIOUS
<1>2. Class!Clone(p)
  BY <1>1 DEF Curr, K, Class!Clone, Class!Linked, Linked
<1> QED BY <1>2 DEF Class!Next

-----------------------------------------------------------------------------
(* What the functions of core.c do to the class.                           *)

\* The idle task is in its class.
Idles(k) == Good(k) /\ k.task[Idle].sched_class = "idle"

\* A state in which core.c may ask the class: the draw skips no entry.
Ready(k) == Idles(k) /\ \A p \in Task : Linked(k.rq.ltr, p) => ltr_policy(k.task[p].policy)

\* The task on the CPU, and whether the class sees it.
LEMMA CurrView ==
  ASSUME NEW k, Idles(k)
  PROVE  /\ k.task[k.rq.curr].sched_class \in Classes \cup {"idle"}
         /\ Curr(k) # NULL <=> k.task[k.rq.curr].sched_class = "lottery"
         /\ Curr(k) # NULL => Curr(k) = k.rq.curr /\ k.rq.curr \in Task
<1>1. k.rq.curr \in Task \cup {Idle}
  BY DEF Idles, Good, KState, RunQueue
<1>2. k.task[k.rq.curr].sched_class \in Classes \cup {"idle"}
  BY <1>1 DEF Idles, Good, NoneIdle
<1>3. k.task[k.rq.curr].sched_class = "lottery" => k.rq.curr \in Task
  BY <1>1 DEF Idles
<1> QED BY <1>1, <1>2, <1>3, NULLAssumption, IdleAssumption DEF Curr

\* A change of need_resched alone is invisible but for that flag.
LEMMA AlikeView ==
  ASSUME NEW k, NEW n, Alike(k, n)
  PROVE  SameView(k, n)
BY DEF Alike, SameView, Tickets, Curr

\* check_preempt_curr: a lottery task preempts every other class and no
\* lottery task, and nothing preempts a lottery task.
LEMMA PreemptView ==
  ASSUME NEW k, Idles(k), NEW p \in Task, NEW preempt
  PROVE  LET n == check_preempt_curr(k, p, preempt)
         IN  /\ SameView(k, n) /\ n.rq.ltr = k.rq.ltr /\ n.rq.need_resched \in BOOLEAN
             /\ IF k.task[p].sched_class = "lottery"
                THEN n.rq.need_resched = (k.rq.need_resched \/ Curr(k) = NULL)
                ELSE Curr(k) # NULL => n.rq.need_resched = k.rq.need_resched
<1> DEFINE n == check_preempt_curr(k, p, preempt)
           class == k.task[p].sched_class
           curr_class == k.task[k.rq.curr].sched_class
<1>1. k \in KState /\ class \in Classes
  BY DEF Idles, Good, NoneIdle
<1>2. Alike(k, n)
  BY <1>1, PreemptAlike
<1>3. n.rq.need_resched \in BOOLEAN /\ k.rq.need_resched \in BOOLEAN
  BY <1>1, <1>2 DEF Alike, KState, RunQueue
<1>4. n = resched_curr(k) => n.rq.need_resched = TRUE
  BY <1>1 DEF resched_curr, KState, RunQueue
<1>5. curr_class \in Classes \cup {"idle"} /\ (Curr(k) # NULL <=> curr_class = "lottery")
  BY CurrView
<1>6. CASE class = "lottery"
  <2>1. Rank(class) > Rank(curr_class) <=> curr_class # "lottery"
    BY <1>5, <1>6, Ranks DEF Classes, Counted
  <2>2. n = IF curr_class # "lottery" THEN resched_curr(k) ELSE k
    BY <1>6, <2>1 DEF check_preempt_curr
  <2> HIDE DEF n
  <2> QED BY <1>2, <1>3, <1>4, <1>5, <1>6, <2>2, AlikeView DEF Alike, n
<1>7. CASE class # "lottery"
  <2>1. curr_class = "lottery" => ~ (Rank(class) > Rank(curr_class)) /\ class # curr_class
    BY <1>1, <1>7, Ranks DEF Classes, Counted
  <2>2. curr_class = "lottery" => n = k
    BY <2>1 DEF check_preempt_curr
  <2> HIDE DEF n
  <2> QED BY <1>2, <1>3, <1>5, <1>7, <2>2, AlikeView DEF Alike, n
<1> QED BY <1>6, <1>7

\* The notifications are silent in the lottery class, for a task that is not
\* queued, and against a lottery task that runs.
LEMMA NotifyView ==
  ASSUME NEW k, Idles(k), NEW p \in Task, NEW preempt
  PROVE  LET n == notify_class(k, p, preempt)
         IN  /\ SameView(k, n) /\ n.rq.ltr = k.rq.ltr /\ n.rq.need_resched \in BOOLEAN
             /\ \/ k.task[p].sched_class = "lottery" \/ ~ k.task[p].on_rq \/ Curr(k) # NULL
                => n.rq.need_resched = k.rq.need_resched
<1> DEFINE n == notify_class(k, p, preempt)
<1>1. k \in KState
  BY DEF Idles, Good
<1>2. Alike(k, n)
  BY <1>1, PreemptAlike
<1>3. n.rq.need_resched \in BOOLEAN
  BY <1>1, <1>2 DEF Alike, KState, RunQueue
<1>4. Curr(k) # NULL <=> k.task[k.rq.curr].sched_class = "lottery"
  BY CurrView
<1>5. SameView(k, n) /\ n.rq.ltr = k.rq.ltr
  BY <1>2, AlikeView DEF Alike
<1>6. CASE k.task[p].sched_class = "lottery" \/ ~ k.task[p].on_rq
  <2>1. n = k
    BY <1>6 DEF notify_class
  <2> QED BY <1>3, <1>5, <2>1
<1>7. CASE k.task[p].sched_class # "lottery" /\ k.task[p].on_rq /\ Curr(k) # NULL
  <2>1. p # k.rq.curr
    BY <1>4, <1>7
  <2>2. n = k \/ n = check_preempt_curr(k, p, preempt)
    BY <2>1 DEF notify_class
  <2>3. check_preempt_curr(k, p, preempt).rq.need_resched = k.rq.need_resched
    BY <1>7, PreemptView
  <2> QED BY <1>3, <1>5, <2>2, <2>3
<1> QED BY <1>3, <1>5, <1>6, <1>7

\* The draw does not depend on the policies as long as every entry has the
\* one the walk looks for.
LEMMA DrawAmongAll ==
  ASSUME NEW ltr \in ltr_rqType, NEW tk, NEW Entrants, NEW random,
         \A p \in Task : Linked(ltr, p) => p \in Entrants
  PROVE  pick_next_task_lottery(ltr, tk, Entrants, random)
         = pick_next_task_lottery(ltr, tk, Task, random)
<1> DEFINE queue == ltr.queue
<1>1. queue \in Seq(Task) /\ Len(queue) \in Nat
  BY DEF ltr_rqType
<1>2. \A i \in 1 .. Len(queue) : queue[i] \in Task /\ queue[i] \in Entrants
  BY <1>1 DEF Linked
<1> HIDE DEF queue
<1>3. TicketsBefore(queue, tk, Entrants) = TicketsBefore(queue, tk, Task)
  BY <1>1, <1>2 DEF TicketsBefore
<1>4. \A lucky : Hits(queue, tk, Entrants, lucky) = Hits(queue, tk, Task, lucky)
  BY <1>2, <1>3 DEF Hits
<1> QED BY <1>4 DEF pick_next_task_lottery, Stop, queue

\* The class is asked first, except on the fast path, which only a task of
\* the fair or the idle class takes.
LEMMA PickView ==
  ASSUME NEW k, Ready(k), NEW next \in __pick_next_task(k)
  PROVE  LET winner == IF k.task[next].sched_class = "lottery" THEN next ELSE NULL
         IN  \/ Curr(k) = NULL /\ winner = NULL
             \/ \E random \in RandomWord :
                   winner = pick_next_task_lottery(k.rq.ltr, Tickets(k), Task, random)
<1> DEFINE asked == IF all_fair(k) THEN {"fair", "idle"} ELSE {"lottery", "dl", "rt", "fair", "idle"}
           Chosen(c) == /\ ClassPicks(k, c) # {}
                        /\ \A d \in asked : Rank(d) > Rank(c) => ClassPicks(k, d) = {}
           class == CHOOSE c \in asked : Chosen(c)
           Entrants == {p \in Task : ltr_policy(k.task[p].policy)}
           drawn == {pick_next_task_lottery(k.rq.ltr, Tickets(k), Task, random) : random \in RandomWord}
           winner == IF k.task[next].sched_class = "lottery" THEN next ELSE NULL
<1>1. k \in KState /\ Placed(k, Place(k)) /\ k.task[Idle].sched_class = "idle"
  BY DEF Ready, Idles, Good
<1>2. ClassPicks(k, "idle") = {Idle}
  BY DEF ClassPicks
<1>3. ClassPicks(k, "lottery") = drawn \ {NULL}
  <2>1. \A random \in RandomWord :
           pick_next_task_lottery(k.rq.ltr, Tickets(k), Entrants, random)
           = pick_next_task_lottery(k.rq.ltr, Tickets(k), Task, random)
    <3>1. k.rq.ltr \in ltr_rqType
      BY <1>1 DEF KState, RunQueue
    <3>2. \A p \in Task : Linked(k.rq.ltr, p) => p \in Entrants
      BY DEF Ready
    <3> HIDE DEF Entrants
    <3> QED BY <3>1, <3>2, DrawAmongAll
  <2>2. ClassPicks(k, "lottery")
        = {pick_next_task_lottery(k.rq.ltr, Tickets(k), Entrants, random) : random \in RandomWord} \ {NULL}
    BY DEF ClassPicks
  <2> HIDE DEF Entrants
  <2> QED BY <2>1, <2>2
<1>4. asked = {"fair", "idle"} \/ asked = {"lottery", "dl", "rt", "fair", "idle"}
  OBVIOUS
<1>5. class \in asked /\ Chosen(class)
  <2>1. \E c \in asked : Chosen(c)
    <3> HIDE DEF asked
    <3>1. CASE asked = {"fair", "idle"}
      BY <1>2, <3>1, Ranks
    <3>2. CASE asked = {"lottery", "dl", "rt", "fair", "idle"}
      BY <1>2, <3>2, Ranks
    <3> QED BY <1>4, <3>1, <3>2
  <2> HIDE DEF asked, Chosen
  <2> QED BY <2>1
<1>6. next \in ClassPicks(k, class)
  BY DEF __pick_next_task
<1>7. all_fair(k) => Curr(k) = NULL
  <2>1. all_fair(k) => k.task[k.rq.curr].sched_class # "lottery"
    BY Ranks DEF all_fair
  <2> QED BY <2>1, CurrView DEF Ready
<1>8. class # "lottery" => winner = NULL
  <2> SUFFICES ASSUME class # "lottery" PROVE k.task[next].sched_class # "lottery"
    OBVIOUS
  <2>1. class = "idle" \/ class \in Counted
    BY <1>4, <1>5 DEF Counted
  <2> HIDE DEF class
  <2>2. CASE class = "idle"
    BY <1>1, <1>2, <1>6, <2>2
  <2>3. CASE class \in Counted
    <3>1. next \in k.rq.queued[class] /\ k.rq.queued[class] \in SUBSET Task
      BY <1>1, <1>6, <2>3 DEF ClassPicks, KState, RunQueue, Counted
    <3>2. Place(k)[next] = class
      BY <1>1, <2>3, <3>1 DEF Placed
    <3> QED BY <2>3, <3>1, <3>2 DEF Place, Counted
  <2> QED BY <2>1, <2>2, <2>3
<1>9. CASE all_fair(k)
  <2>1. class # "lottery"
    BY <1>5, <1>9
  <2> QED BY <1>7, <1>8, <1>9, <2>1
<1>10. CASE ~ all_fair(k) /\ class = "lottery"
  <2> HIDE DEF class, drawn
  <2>1. next \in drawn /\ next # NULL
    BY <1>3, <1>6, <1>10
  <2>2. PICK random \in RandomWord : next = pick_next_task_lottery(k.rq.ltr, Tickets(k), Task, random)
    BY <2>1 DEF drawn
  <2>3. next \in Task /\ Linked(k.rq.ltr, next)
    BY <1>1, <2>1, <2>2, PickIsLinked DEF KState, RunQueue
  <2>4. k.task[next].sched_class = "lottery"
    BY <1>1, <2>3 DEF Placed, Place
  <2> QED BY <2>2, <2>4
<1>11. CASE ~ all_fair(k) /\ class # "lottery"
  <2>1. class \in {"dl", "rt", "fair", "idle"} /\ "lottery" \in asked
    BY <1>5, <1>11
  <2> HIDE DEF class, drawn
  <2>2. Rank("lottery") > Rank(class)
    BY <2>1, Ranks
  <2>3. drawn \ {NULL} = {}
    BY <1>3, <1>5, <2>1, <2>2
  <2>4. 0 \in RandomWord
    BY WordAssumption DEF RandomWord
  <2>5. pick_next_task_lottery(k.rq.ltr, Tickets(k), Task, 0) = NULL
    BY <2>3, <2>4 DEF drawn
  <2> QED BY <1>8, <1>11, <2>4, <2>5
<1> QED BY <1>9, <1>10, <1>11

\* activate_task links a task of the class, and no other.
LEMMA ActivateView ==
  ASSUME NEW k, Idles(k), NEW p \in Task
  PROVE  LET n == activate_task(k, p)
         IN  /\ SameView(k, n) /\ n.rq.need_resched = k.rq.need_resched /\ n.rq.curr = k.rq.curr
             /\ n.rq.ltr = IF k.task[p].sched_class = "lottery"
                           THEN enqueue_task_lottery(k.rq.ltr, p, Tickets(k)) ELSE k.rq.ltr
<1> DEFINE m == enqueue_task(k, p)
           n == activate_task(k, p)
<1>1. k \in KState /\ k.task \in [Task \cup {Idle} -> TaskStruct] /\ k.rq.curr \in Task \cup {Idle}
  BY DEF Idles, Good, KState, RunQueue
<1>2. /\ m.task = k.task /\ m.rq.curr = k.rq.curr /\ m.rq.need_resched = k.rq.need_resched
      /\ m.rq.ltr = IF k.task[p].sched_class = "lottery"
                    THEN enqueue_task_lottery(k.rq.ltr, p, Tickets(k)) ELSE k.rq.ltr
      /\ DOMAIN m = DOMAIN k
  BY <1>1 DEF enqueue_task, KState, RunQueue
<1>3. n = [m EXCEPT !.task[p].on_rq = TRUE]
  BY DEF activate_task
<1> HIDE DEF n, m
<1>4. n.rq = m.rq /\ n.task = [k.task EXCEPT ![p] = [@ EXCEPT !.on_rq = TRUE]]
  BY <1>1, <1>2, <1>3 DEF KState
<1>5. \A q \in Task \cup {Idle} : n.task[q].tickets = k.task[q].tickets
                                  /\ n.task[q].sched_class = k.task[q].sched_class
  BY <1>1, <1>4 DEF TaskStruct
<1>6. SameView(k, n)
  BY <1>1, <1>2, <1>4, <1>5 DEF SameView, Tickets, Curr
<1> QED BY <1>2, <1>4, <1>6 DEF n

\* deactivate_task unlinks a task of the class, and no other.
LEMMA DeactivateView ==
  ASSUME NEW k, Idles(k), NEW p \in Task, k.task[p].on_rq
  PROVE  LET n == deactivate_task(k, p)
         IN  /\ SameView(k, n) /\ n.rq.need_resched = k.rq.need_resched
             /\ n.rq.ltr = IF k.task[p].sched_class = "lottery"
                           THEN dequeue_task_lottery(k.rq.ltr, p, Tickets(k)) ELSE k.rq.ltr
<1> DEFINE m == [k EXCEPT !.task[p].on_rq = FALSE]
           n == deactivate_task(k, p)
<1>1. k \in KState /\ k.task \in [Task \cup {Idle} -> TaskStruct] /\ k.rq.curr \in Task \cup {Idle}
      /\ Placed(k, Place(k))
  BY DEF Idles, Good, KState, RunQueue
<1>2. m.rq = k.rq /\ m.task = [k.task EXCEPT ![p] = [@ EXCEPT !.on_rq = FALSE]] /\ DOMAIN m = DOMAIN k
  BY <1>1 DEF KState
<1>3. \A q \in Task \cup {Idle} : m.task[q].tickets = k.task[q].tickets
                                  /\ m.task[q].sched_class = k.task[q].sched_class
  BY <1>1, <1>2 DEF TaskStruct
<1>4. Tickets(m) = Tickets(k)
  BY <1>3 DEF Tickets
<1>5. n = dequeue_task(m, p)
  BY DEF deactivate_task
<1>6. k.task[p].sched_class = "lottery" => Linked(k.rq.ltr, p)
  BY <1>1 DEF Placed, Place
<1> HIDE DEF m, n
<1>7. /\ n.task = m.task /\ n.rq.curr = k.rq.curr /\ n.rq.need_resched = k.rq.need_resched
      /\ n.rq.ltr = IF k.task[p].sched_class = "lottery"
                    THEN dequeue_task_lottery(k.rq.ltr, p, Tickets(k)) ELSE k.rq.ltr
  BY <1>1, <1>2, <1>3, <1>4, <1>5, <1>6 DEF dequeue_task, list_del_lottery, KState, RunQueue
<1>8. SameView(k, n)
  BY <1>1, <1>3, <1>7 DEF SameView, Tickets, Curr
<1> QED BY <1>7, <1>8 DEF n

\* A task that blocks or exits leaves the list of the class, if it was on it.
LEMMA SleepView ==
  ASSUME NEW k, Ready(k), NEW mode, NEW signal \in BOOLEAN,
         mode = "SM_PREEMPT" \/ (k.rq.curr \in Task /\ k.task[k.rq.curr].on_rq)
  PROVE  LET m == put_to_sleep(k, mode, signal)
         IN  /\ Ready(m) /\ SameView(k, m)
             /\ \/ m.rq.ltr = k.rq.ltr
                \/ Curr(k) # NULL /\ m.rq.ltr = dequeue_task_lottery(k.rq.ltr, Curr(k), Tickets(k))
<1> DEFINE prev == k.rq.curr
           m == put_to_sleep(k, mode, signal)
<1>1. /\ k \in KState /\ k.task \in [Task \cup {Idle} -> TaskStruct] /\ prev \in Task \cup {Idle}
      /\ Good(k) /\ Placed(k, Place(k)) /\ k.task[Idle].sched_class = "idle"
  BY DEF Ready, Idles, Good, KState, RunQueue
<1>2. CASE mode = "SM_PREEMPT" \/ k.task[prev].state = "RUNNING"
  BY <1>2 DEF put_to_sleep, SameView
<1>3. CASE ~ (mode = "SM_PREEMPT" \/ k.task[prev].state = "RUNNING")
  <2>1. prev \in Task /\ k.task[prev].on_rq /\ k.task[prev] \in TaskStruct
    BY <1>1, <1>3
  <2>2. Good(m) /\ (\/ m.task = [k.task EXCEPT ![prev] = [@ EXCEPT !.state = "RUNNING"]]
                    \/ m.task = [k.task EXCEPT ![prev] = [@ EXCEPT !.on_rq = FALSE]])
    BY <1>1, <1>3, SleepGood
  <2>3. /\ SameView(k, m)
        /\ \/ m.rq.ltr = k.rq.ltr
           \/ Curr(k) # NULL /\ m.rq.ltr = dequeue_task_lottery(k.rq.ltr, Curr(k), Tickets(k))
    <3>1. CASE signal /\ k.task[prev].state = "INTERRUPTIBLE"
      <4>1. m = [k EXCEPT !.task[prev].state = "RUNNING"]
        BY <1>3, <3>1 DEF put_to_sleep
      <4> HIDE DEF m
      <4>2. m.rq = k.rq /\ m.task = [k.task EXCEPT ![prev] = [@ EXCEPT !.state = "RUNNING"]]
        BY <1>1, <4>1 DEF KState
      <4>3. \A q \in Task \cup {Idle} : m.task[q].tickets = k.task[q].tickets
                                        /\ m.task[q].sched_class = k.task[q].sched_class
        BY <1>1, <4>2 DEF TaskStruct
      <4> QED BY <1>1, <4>2, <4>3 DEF SameView, Tickets, Curr
    <3>2. CASE ~ (signal /\ k.task[prev].state = "INTERRUPTIBLE")
      <4>1. m = deactivate_task(k, prev)
        BY <1>3, <3>2 DEF put_to_sleep
      <4> HIDE DEF m, prev
      <4>2. /\ SameView(k, m)
            /\ m.rq.ltr = IF k.task[prev].sched_class = "lottery"
                          THEN dequeue_task_lottery(k.rq.ltr, prev, Tickets(k)) ELSE k.rq.ltr
        BY <2>1, <4>1, DeactivateView DEF Ready
      <4>3. k.task[prev].sched_class = "lottery" => Curr(k) # NULL /\ Curr(k) = prev
        BY CurrView DEF prev, Ready
      <4> QED BY <4>2, <4>3
    <3> QED BY <3>1, <3>2
  <2> HIDE DEF m
  <2>4. \A q \in Task \cup {Idle} :
           /\ m.task[q].policy = k.task[q].policy /\ m.task[q].sched_class = k.task[q].sched_class
           /\ m.task[q].on_rq => k.task[q].on_rq
    <3>1. CASE m.task = [k.task EXCEPT ![prev] = [@ EXCEPT !.state = "RUNNING"]]
      BY <1>1, <2>1, <3>1 DEF TaskStruct
    <3>2. CASE m.task = [k.task EXCEPT ![prev] = [@ EXCEPT !.on_rq = FALSE]]
      BY <1>1, <2>1, <3>2 DEF TaskStruct
    <3> QED BY <2>2, <3>1, <3>2
  <2>5. ASSUME NEW q \in Task, Linked(m.rq.ltr, q) PROVE ltr_policy(m.task[q].policy)
    <3>1. Place(m)[q] = "lottery"
      BY <2>2, <2>5 DEF Good, Placed
    <3>2. m.task[q].on_rq /\ m.task[q].sched_class = "lottery"
      BY <3>1 DEF Place
    <3>3. Place(k)[q] = "lottery"
      BY <2>4, <3>2 DEF Place
    <3>4. Linked(k.rq.ltr, q)
      BY <1>1, <3>3 DEF Placed
    <3> QED BY <2>4, <3>4 DEF Ready
  <2>6. Ready(m)
    BY <1>1, <2>2, <2>4, <2>5 DEF Ready, Idles
  <2> QED BY <2>3, <2>6 DEF m
<1> QED BY <1>2, <1>3

\* __schedule is a draw of the class, after the task that blocks has left the
\* list; or it passes the class by while none of its tasks runs.
LEMMA ScheduleView ==
  ASSUME NEW k, Ready(k), NEW mode, NEW n \in __schedule(k, mode),
         mode = "SM_PREEMPT" \/ (k.rq.curr \in Task /\ k.task[k.rq.curr].on_rq)
  PROVE  /\ Tickets(n) = Tickets(k) /\ n.rq.need_resched = FALSE
         /\ \/ n.rq.ltr = k.rq.ltr
            \/ Curr(k) # NULL /\ n.rq.ltr = dequeue_task_lottery(k.rq.ltr, Curr(k), Tickets(k))
         /\ \/ Curr(k) = NULL /\ Curr(n) = NULL
            \/ \E random \in RandomWord :
                  Curr(n) = pick_next_task_lottery(n.rq.ltr, Tickets(k), Task, random)
<1>1. PICK signal \in BOOLEAN : \E next \in __pick_next_task(put_to_sleep(k, mode, signal)) :
           n = [put_to_sleep(k, mode, signal) EXCEPT !.rq.curr = next, !.rq.need_resched = FALSE]
  BY DEF __schedule
<1> DEFINE m == put_to_sleep(k, mode, signal)
<1>2. PICK next \in __pick_next_task(m) :
           n = [m EXCEPT !.rq.curr = next, !.rq.need_resched = FALSE]
  BY <1>1
<1>3. /\ Ready(m) /\ SameView(k, m)
      /\ \/ m.rq.ltr = k.rq.ltr
         \/ Curr(k) # NULL /\ m.rq.ltr = dequeue_task_lottery(k.rq.ltr, Curr(k), Tickets(k))
  BY SleepView
<1> HIDE DEF m
<1>4. m \in KState
  BY <1>3 DEF Ready, Idles, Good
<1>5. /\ n.task = m.task /\ n.rq.curr = next /\ n.rq.need_resched = FALSE
      /\ n.rq.ltr = m.rq.ltr
  BY <1>2, <1>4 DEF KState, RunQueue
<1>6. Tickets(n) = Tickets(k) /\ Tickets(m) = Tickets(k) /\ Curr(m) = Curr(k)
  BY <1>3, <1>5 DEF SameView, Tickets
<1>7. Curr(n) = IF m.task[next].sched_class = "lottery" THEN next ELSE NULL
  BY <1>5 DEF Curr
<1>8. \/ Curr(m) = NULL /\ Curr(n) = NULL
      \/ \E random \in RandomWord :
            Curr(n) = pick_next_task_lottery(m.rq.ltr, Tickets(m), Task, random)
  BY <1>2, <1>3, <1>7, PickView
<1> QED BY <1>3, <1>5, <1>6, <1>8

-----------------------------------------------------------------------------
(* Wake-ups.                                                               *)

\* From k to n the class sees nothing, unless another class has the CPU, and
\* then only need_resched.
Passes(k, n) ==
    /\ SameView(k, n) /\ n.rq.ltr = k.rq.ltr /\ n.rq.need_resched \in BOOLEAN
    /\ Curr(k) # NULL => n.rq.need_resched = k.rq.need_resched

\* From k to n, p becomes runnable in the class.
Enqueues(k, n, p) ==
    /\ SameView(k, n) /\ ~ Linked(k.rq.ltr, p)
    /\ n.rq.ltr = enqueue_task_lottery(k.rq.ltr, p, Tickets(k))
    /\ n.rq.need_resched = (k.rq.need_resched \/ Curr(k) = NULL)

LEMMA ClassPasses ==
  ASSUME NEW n, Commit(n), Passes(K, n)
  PROVE  Class!Next \/ UNCHANGED Class!vars
<1>1. CASE Curr(K) = NULL
  BY <1>1, ClassIsElsewhere DEF Passes, K
<1>2. CASE Curr(K) # NULL
  BY <1>2, ClassStays DEF Passes, K
<1> QED BY <1>1, <1>2

\* Another state of a task is no matter to the class.
LEMMA StateView ==
  ASSUME NEW k, Idles(k), NEW p \in Task, NEW state \in TaskState,
         NEW n, n = [k EXCEPT !.task[p].state = state]
  PROVE  /\ Idles(n) /\ SameView(k, n) /\ n.rq = k.rq
         /\ \A q \in Task : /\ n.task[q].policy = k.task[q].policy
                            /\ n.task[q].sched_class = k.task[q].sched_class
                            /\ n.task[q].on_rq = k.task[q].on_rq
<1> DEFINE new == [k.task[p] EXCEPT !.state = state]
<1>1. k \in KState /\ k.task \in [Task \cup {Idle} -> TaskStruct] /\ k.rq.curr \in Task \cup {Idle}
      /\ Good(k) /\ NoneIdle(k)
  BY DEF Idles, Good, KState, RunQueue
<1>2. /\ new \in TaskStruct /\ new.policy = k.task[p].policy /\ new.tickets = k.task[p].tickets
      /\ new.sched_class = k.task[p].sched_class /\ new.on_rq = k.task[p].on_rq
      /\ new.sched_class \in Classes
  BY <1>1 DEF TaskStruct, NoneIdle
<1>3. n = [k EXCEPT !.task[p] = new] /\ n.rq = k.rq /\ n.task = [k.task EXCEPT ![p] = new]
  BY <1>1 DEF KState
<1> HIDE DEF new
<1>4. Good(n)
  BY <1>1, <1>2, <1>3, GoodUpdate
<1>5. \A q \in Task \cup {Idle} : /\ n.task[q].policy = k.task[q].policy
                                  /\ n.task[q].sched_class = k.task[q].sched_class
                                  /\ n.task[q].on_rq = k.task[q].on_rq
                                  /\ n.task[q].tickets = k.task[q].tickets
  BY <1>1, <1>2, <1>3
<1>6. SameView(k, n)
  BY <1>1, <1>3, <1>5 DEF SameView, Tickets, Curr
<1>7. Idles(n)
  BY <1>4, <1>5 DEF Idles
<1> QED BY <1>3, <1>5, <1>6, <1>7

\* activate_task and the check for preemption that follows.
LEMMA ActivatePreempts ==
  ASSUME NEW k, Idles(k), NEW p \in Task, ~ k.task[p].on_rq, NEW preempt
  PROVE  LET n == check_preempt_curr(activate_task(k, p), p, preempt)
         IN  /\ Idles(n) /\ (Passes(k, n) \/ Enqueues(k, n, p))
<1> DEFINE m == activate_task(k, p)
           n == check_preempt_curr(m, p, preempt)
<1>1. /\ k \in KState /\ k.task \in [Task \cup {Idle} -> TaskStruct]
      /\ Good(k) /\ Placed(k, Place(k)) /\ k.task[Idle].sched_class = "idle"
  BY DEF Idles, Good, KState
<1>2. /\ SameView(k, m) /\ m.rq.need_resched = k.rq.need_resched /\ m.rq.curr = k.rq.curr
      /\ m.rq.ltr = IF k.task[p].sched_class = "lottery"
                    THEN enqueue_task_lottery(k.rq.ltr, p, Tickets(k)) ELSE k.rq.ltr
  BY ActivateView
<1>3. WorksOn(k, m, p) /\ m.task[p] = [k.task[p] EXCEPT !.on_rq = TRUE]
  BY <1>1, ActivateGood
<1> HIDE DEF m
<1>4. m.task[p].sched_class = k.task[p].sched_class /\ m.task[Idle] = k.task[Idle]
  BY <1>1, <1>3, IdleAssumption DEF WorksOn, TaskStruct
<1>5. Idles(m)
  BY <1>1, <1>3, <1>4 DEF Idles, WorksOn
<1>6. /\ SameView(m, n) /\ n.rq.ltr = m.rq.ltr /\ n.rq.need_resched \in BOOLEAN
      /\ IF m.task[p].sched_class = "lottery"
         THEN n.rq.need_resched = (m.rq.need_resched \/ Curr(m) = NULL)
         ELSE Curr(m) # NULL => n.rq.need_resched = m.rq.need_resched
  BY <1>5, PreemptView
<1>7. Idles(n)
  <2>1. m \in KState
    BY <1>5 DEF Idles, Good
  <2>2. Alike(m, n)
    BY <2>1, PreemptAlike
  <2> QED BY <1>5, <2>2, AlikeGood DEF Idles, Alike
<1> HIDE DEF n
<1>8. SameView(k, n) /\ Curr(m) = Curr(k)
  BY <1>2, <1>6 DEF SameView
<1>9. CASE k.task[p].sched_class = "lottery"
  <2>1. ~ Linked(k.rq.ltr, p)
    BY <1>1 DEF Placed, Place
  <2>2. Enqueues(k, n, p)
    BY <1>2, <1>4, <1>6, <1>8, <1>9, <2>1 DEF Enqueues
  <2> QED BY <1>7, <2>2 DEF n, m
<1>10. CASE k.task[p].sched_class # "lottery"
  <2>1. Passes(k, n)
    BY <1>2, <1>4, <1>6, <1>8, <1>10 DEF Passes
  <2> QED BY <1>7, <2>1 DEF n, m
<1> QED BY <1>9, <1>10

\* A wake-up.
LEMMA WakeUpView ==
  ASSUME NEW k, Idles(k), NEW p \in Task, NEW preempt
  PROVE  LET n == try_to_wake_up(k, p, preempt)
         IN  Passes(k, n) \/ (k.task[p].state = "INTERRUPTIBLE" /\ Enqueues(k, n, p))
<1> DEFINE n == try_to_wake_up(k, p, preempt)
<1>0. k \in KState /\ k.rq.need_resched \in BOOLEAN /\ "RUNNING" \in TaskState
  BY DEF Idles, Good, KState, RunQueue, TaskState
<1>1. CASE k.task[p].state # "INTERRUPTIBLE"
  <2>1. n = k
    BY <1>1 DEF try_to_wake_up, ttwu_state_match
  <2> QED BY <1>0, <2>1 DEF Passes, SameView
<1>2. CASE k.task[p].state = "INTERRUPTIBLE" /\ p = k.rq.curr
  <2>1. n = [k EXCEPT !.task[p].state = "RUNNING"]
    BY <1>2 DEF try_to_wake_up, ttwu_state_match
  <2> HIDE DEF n
  <2>2. SameView(k, n) /\ n.rq = k.rq
    BY <1>0, <2>1, StateView
  <2> QED BY <1>0, <2>2 DEF Passes, n
<1>3. CASE k.task[p].state = "INTERRUPTIBLE" /\ p # k.rq.curr
  <2> DEFINE m == IF k.task[p].on_rq THEN k ELSE activate_task(k, p)
             c == check_preempt_curr(m, p, preempt)
  <2>1. n = [c EXCEPT !.task[p].state = "RUNNING"]
    BY <1>3 DEF try_to_wake_up, ttwu_state_match, ttwu_do_activate, ttwu_do_wakeup
  <2>2. Idles(c) /\ (Passes(k, c) \/ Enqueues(k, c, p))
    <3>1. CASE k.task[p].on_rq
      <4>1. c = check_preempt_curr(k, p, preempt)
        BY <3>1
      <4>2. Alike(k, c)
        BY <1>0, <4>1, PreemptAlike
      <4>3. Idles(c)
        BY <4>2, AlikeGood DEF Idles, Alike
      <4> HIDE DEF c
      <4>4. /\ SameView(k, c) /\ c.rq.ltr = k.rq.ltr /\ c.rq.need_resched \in BOOLEAN
            /\ Curr(k) # NULL => c.rq.need_resched = k.rq.need_resched
        BY <1>0, <4>1, PreemptView
      <4> QED BY <4>3, <4>4 DEF Passes
    <3>2. CASE ~ k.task[p].on_rq
      BY <3>2, ActivatePreempts
    <3> QED BY <3>1, <3>2
  <2> HIDE DEF c, n
  <2>3. SameView(c, n) /\ n.rq = c.rq
    BY <1>0, <2>1, <2>2, StateView
  <2>4. SameView(k, c) => SameView(k, n)
    BY <2>3 DEF SameView
  <2>5. CASE Passes(k, c)
    BY <2>3, <2>4, <2>5 DEF Passes, n
  <2>6. CASE Enqueues(k, c, p)
    BY <1>3, <2>3, <2>4, <2>6 DEF Enqueues, n
  <2> QED BY <2>2, <2>5, <2>6
<1> QED BY <1>1, <1>2, <1>3

\* The first wake-up of a child.
LEMMA WakeNewView ==
  ASSUME NEW k, Idles(k), NEW p \in Task, ~ k.task[p].on_rq, NEW preempt
  PROVE  LET n == wake_up_new_task(k, p, preempt)
         IN  Passes(k, n) \/ Enqueues(k, n, p)
<1> DEFINE j == [k EXCEPT !.task[p].state = "RUNNING"]
           n == check_preempt_curr(activate_task(j, p), p, preempt)
<1>1. "RUNNING" \in TaskState
  BY DEF TaskState
<1>2. n = wake_up_new_task(k, p, preempt)
  BY DEF wake_up_new_task
<1>3. Idles(j) /\ SameView(k, j) /\ j.rq = k.rq /\ ~ j.task[p].on_rq
  <2> HIDE DEF j
  <2> QED BY <1>1, StateView DEF j
<1> HIDE DEF j
<1>4. Passes(j, n) \/ Enqueues(j, n, p)
  BY <1>3, ActivatePreempts
<1> HIDE DEF n
<1>5. Tickets(j) = Tickets(k) /\ Curr(j) = Curr(k)
  BY <1>3 DEF SameView
<1>6. Passes(j, n) => Passes(k, n)
  BY <1>3, <1>5 DEF Passes, SameView
<1>7. Enqueues(j, n, p) => Enqueues(k, n, p)
  BY <1>3, <1>5 DEF Enqueues, SameView
<1> QED BY <1>2, <1>4, <1>6, <1>7

-----------------------------------------------------------------------------
(* Changes of policy and nice value.                                       *)

\* From k to n, p stays in the class while its parameters change.
Requeues(k, n, p) ==
    /\ SameView(k, n) /\ Linked(k.rq.ltr, p)
    /\ n.rq.ltr = enqueue_task_lottery(dequeue_task_lottery(k.rq.ltr, p, Tickets(k)), p, Tickets(k))
    /\ n.rq.need_resched = k.rq.need_resched

\* From k to n, a queued p comes to the class; it may be the task that runs.
Switches(k, n, p) ==
    /\ Tickets(n) = Tickets(k) /\ k.task[p].on_rq /\ ~ Linked(k.rq.ltr, p)
    /\ Curr(n) = Curr(k) \/ (Curr(k) = NULL /\ Curr(n) = p)
    /\ n.rq.ltr = enqueue_task_lottery(k.rq.ltr, p, Tickets(k))
    /\ n.rq.need_resched = k.rq.need_resched

\* The bracket of dequeue_task and enqueue_task around a change of p.
LEMMA RequeuedView ==
  ASSUME NEW k, Idles(k), NEW p \in Task, NEW new \in TaskStruct,
         new.on_rq = k.task[p].on_rq, new.tickets = k.task[p].tickets, new.sched_class \in Classes
  PROVE  LET n == Requeued(k, p, new)
             left == IF k.task[p].on_rq /\ k.task[p].sched_class = "lottery"
                     THEN dequeue_task_lottery(k.rq.ltr, p, Tickets(k)) ELSE k.rq.ltr
         IN  /\ Idles(n) /\ n.task = [k.task EXCEPT ![p] = new] /\ Tickets(n) = Tickets(k)
             /\ n.rq.need_resched = k.rq.need_resched /\ n.rq.curr = k.rq.curr
             /\ n.rq.ltr = IF new.on_rq /\ new.sched_class = "lottery"
                           THEN enqueue_task_lottery(left, p, Tickets(k)) ELSE left
<1> DEFINE n == Requeued(k, p, new)
           class == k.task[p].sched_class
           left == IF k.task[p].on_rq /\ class = "lottery"
                   THEN dequeue_task_lottery(k.rq.ltr, p, Tickets(k)) ELSE k.rq.ltr
           out == IF k.task[p].on_rq THEN dequeue_task(k, p) ELSE k
           mid == [out EXCEPT !.task[p] = new]
<1>1. /\ k \in KState /\ k.task \in [Task \cup {Idle} -> TaskStruct] /\ Good(k)
      /\ Placed(k, Place(k)) /\ k.task[Idle].sched_class = "idle"
  BY DEF Idles, Good, KState
<1>2. n = IF k.task[p].on_rq THEN enqueue_task(mid, p) ELSE mid
  BY DEF Requeued
<1>3. WorksOn(k, n, p) /\ n.task[p] = new
  BY <1>1, RequeueGood
<1>4. k.task[p].on_rq /\ class = "lottery" => Linked(k.rq.ltr, p)
  BY <1>1 DEF Placed, Place
<1>5. /\ out.task = k.task /\ out.rq.need_resched = k.rq.need_resched /\ out.rq.curr = k.rq.curr
      /\ out.rq.ltr = left /\ DOMAIN out = DOMAIN k /\ DOMAIN out.rq = DOMAIN k.rq
  <2>1. CASE ~ k.task[p].on_rq
    BY <2>1
  <2>2. CASE k.task[p].on_rq
    BY <1>1, <1>4, <2>2 DEF dequeue_task, list_del_lottery, KState, RunQueue
  <2> QED BY <2>1, <2>2
<1> HIDE DEF n, out, left, class
<1>6. mid.task = [k.task EXCEPT ![p] = new] /\ mid.rq = out.rq /\ DOMAIN mid = DOMAIN k
  BY <1>1, <1>5 DEF KState
<1>7. mid.task[p] = new
  BY <1>1, <1>6
<1>8. Tickets(mid) = Tickets(k)
  BY <1>1, <1>6 DEF Tickets
<1> HIDE DEF mid
<1>9. /\ n.rq.need_resched = k.rq.need_resched /\ n.rq.curr = k.rq.curr /\ n.task = mid.task
      /\ n.rq.ltr = IF k.task[p].on_rq /\ new.sched_class = "lottery"
                    THEN enqueue_task_lottery(left, p, Tickets(k)) ELSE left
  <2>1. CASE ~ k.task[p].on_rq
    BY <1>2, <1>5, <1>6, <2>1
  <2>2. CASE k.task[p].on_rq
    <3>1. n = enqueue_task(mid, p)
      BY <1>2, <2>2
    <3>2. DOMAIN mid = {"task", "rq", "fault"}
          /\ DOMAIN mid.rq = {"curr", "need_resched", "nr_running", "ltr", "queued"}
      BY <1>1, <1>5, <1>6 DEF KState, RunQueue
    <3> QED BY <1>5, <1>6, <1>7, <1>8, <2>2, <3>1, <3>2 DEF enqueue_task
  <2> QED BY <2>1, <2>2
<1>10. Tickets(n) = Tickets(k)
  BY <1>8, <1>9 DEF Tickets
<1>11. Idles(n)
  <2>1. n.task[Idle] = k.task[Idle]
    BY <1>1, <1>6, <1>9, IdleAssumption
  <2> QED BY <1>1, <1>3, <2>1 DEF Idles, WorksOn
<1> QED BY <1>6, <1>9, <1>10, <1>11 DEF n, left, class

\* A change that leaves p in its class or takes it to the lottery class, and
\* the notification of that class.
LEMMA BracketView ==
  ASSUME NEW k, Idles(k), NEW p \in Task, k.rq.curr = p => k.task[p].on_rq,
         NEW new \in TaskStruct,
         new.on_rq = k.task[p].on_rq, new.tickets = k.task[p].tickets, new.sched_class \in Classes,
         new.sched_class = k.task[p].sched_class \/ new.sched_class = "lottery",
         NEW preempt, NEW n,
         n = Requeued(k, p, new) \/ n = notify_class(Requeued(k, p, new), p, preempt)
  PROVE  Passes(k, n) \/ Requeues(k, n, p) \/ Switches(k, n, p)
<1> DEFINE in == Requeued(k, p, new)
           class == k.task[p].sched_class
<1>1. /\ k \in KState /\ k.task \in [Task \cup {Idle} -> TaskStruct]
      /\ k.rq.curr \in Task \cup {Idle} /\ Placed(k, Place(k)) /\ class \in Classes
      /\ k.rq.need_resched \in BOOLEAN
  BY DEF Idles, Good, KState, RunQueue, NoneIdle
<1>2. /\ Idles(in) /\ in.task = [k.task EXCEPT ![p] = new] /\ Tickets(in) = Tickets(k)
      /\ in.rq.need_resched = k.rq.need_resched /\ in.rq.curr = k.rq.curr
      /\ in.rq.ltr = LET left == IF k.task[p].on_rq /\ class = "lottery"
                                 THEN dequeue_task_lottery(k.rq.ltr, p, Tickets(k)) ELSE k.rq.ltr
                     IN  IF new.on_rq /\ new.sched_class = "lottery"
                         THEN enqueue_task_lottery(left, p, Tickets(k)) ELSE left
  BY RequeuedView
<1> HIDE DEF in
<1>3. in.task[p] = new
  BY <1>1, <1>2
<1>4. /\ SameView(in, n) /\ n.rq.ltr = in.rq.ltr /\ n.rq.need_resched \in BOOLEAN
      /\ \/ new.sched_class = "lottery" \/ ~ new.on_rq \/ Curr(in) # NULL
         => n.rq.need_resched = in.rq.need_resched
  <2>1. CASE n = in
    BY <1>1, <1>2, <2>1 DEF SameView
  <2>2. CASE n = notify_class(in, p, preempt)
    <3>1. /\ SameView(in, n) /\ n.rq.ltr = in.rq.ltr /\ n.rq.need_resched \in BOOLEAN
          /\ \/ in.task[p].sched_class = "lottery" \/ ~ in.task[p].on_rq \/ Curr(in) # NULL
             => n.rq.need_resched = in.rq.need_resched
      <4>1. Idles(in)
        BY <1>2
      <4> QED BY <4>1, <2>2, NotifyView
    <3> QED BY <1>3, <3>1
  <2> QED BY <2>1, <2>2 DEF in
<1>5. Tickets(n) = Tickets(k) /\ Curr(n) = Curr(in)
  BY <1>2, <1>4 DEF SameView
<1>6. new.sched_class = class \/ k.rq.curr # p => Curr(in) = Curr(k)
  BY <1>1, <1>2, <1>3 DEF Curr
<1>7. CASE ~ k.task[p].on_rq
  <2>1. k.rq.curr # p
    BY <1>7
  <2> QED BY <1>2, <1>4, <1>5, <1>6, <1>7, <2>1 DEF Passes, SameView
<1>8. CASE k.task[p].on_rq /\ class = "lottery"
  <2>1. new.sched_class = "lottery" /\ Linked(k.rq.ltr, p)
    BY <1>1, <1>8 DEF Placed, Place
  <2> QED BY <1>2, <1>4, <1>5, <1>6, <1>8, <2>1 DEF Requeues, SameView
<1>9. CASE k.task[p].on_rq /\ class # "lottery" /\ new.sched_class = class
  BY <1>2, <1>4, <1>5, <1>6, <1>9 DEF Passes, SameView
<1>10. CASE k.task[p].on_rq /\ class # "lottery" /\ new.sched_class = "lottery"
  <2>1. ~ Linked(k.rq.ltr, p)
    BY <1>1, <1>10 DEF Placed, Place
  <2>2. k.rq.curr = p => Curr(k) = NULL /\ Curr(in) = p
    BY <1>2, <1>3, <1>10 DEF Curr
  <2> QED BY <1>2, <1>4, <1>5, <1>6, <1>10, <2>1, <2>2 DEF Switches
<1> QED BY <1>7, <1>8, <1>9, <1>10

LEMMA ChangeView ==
  ASSUME NEW k, Idles(k), NEW p \in Task, k.rq.curr = p => k.task[p].on_rq,
         NEW policy \in Policy, ltr_policy(policy), NEW attr \in RequestType, NEW preempt
  PROVE  LET n == change(k, p, policy, attr, preempt)
         IN  Passes(k, n) \/ Requeues(k, n, p) \/ Switches(k, n, p)
<1> DEFINE n == change(k, p, policy, attr, preempt)
           old == k.task[p]
<1>1. Good(k)
  BY DEF Idles
<1>2. PICK new \in TaskStruct :
         /\ new.state = old.state /\ new.on_rq = old.on_rq /\ new.tickets = old.tickets
         /\ new.sched_class \in Classes
         /\ \/ new = old
            \/ new.policy = policy /\ new.sched_class = "lottery"
         /\ \/ n = Requeued(k, p, new)
            \/ n = notify_class(Requeued(k, p, new), p, preempt)
  BY <1>1, ChangeIs
<1> HIDE DEF n
<1> QED BY <1>2, BracketView DEF n

LEMMA NiceView ==
  ASSUME NEW k, Idles(k), NEW p \in Task, k.rq.curr = p => k.task[p].on_rq,
         NEW nice \in Int, NEW preempt
  PROVE  LET n == set_user_nice(k, p, nice, preempt)
         IN  Passes(k, n) \/ Requeues(k, n, p) \/ Switches(k, n, p)
<1> DEFINE n == set_user_nice(k, p, nice, preempt)
           old == k.task[p]
<1>1. Good(k) /\ k \in KState /\ k.task \in [Task \cup {Idle} -> TaskStruct]
      /\ k.rq.curr \in Task \cup {Idle} /\ k.rq.need_resched \in BOOLEAN /\ old.sched_class \in Classes
  BY DEF Idles, Good, KState, RunQueue, NoneIdle
<1>2. PICK new \in TaskStruct :
         /\ new.state = old.state /\ new.on_rq = old.on_rq /\ new.tickets = old.tickets
         /\ new.policy = old.policy /\ new.sched_class = old.sched_class
         /\ \/ n = [k EXCEPT !.task[p] = new]
            \/ n = notify_class(Requeued(k, p, new), p, preempt)
  BY <1>1, NiceIs
<1> HIDE DEF n
<1>3. CASE n = [k EXCEPT !.task[p] = new]
  <2>1. n.rq = k.rq /\ n.task = [k.task EXCEPT ![p] = new]
    BY <1>1, <1>3 DEF KState
  <2>2. SameView(k, n)
    BY <1>1, <1>2, <2>1 DEF SameView, Tickets, Curr
  <2>3. Passes(k, n)
    BY <1>1, <2>1, <2>2 DEF Passes
  <2> QED BY <2>3 DEF n
<1>4. CASE n = notify_class(Requeued(k, p, new), p, preempt)
  BY <1>1, <1>2, <1>4, BracketView DEF n
<1> QED BY <1>2, <1>3, <1>4

-----------------------------------------------------------------------------
(* The invariant of the refinement.                                        *)

\* Every process holds its grant before anybody can queue it: a copy has the
\* tickets of its parent, and kernel_clone stores the same number.
Granted ==
    /\ task[Idle].sched_class = "idle"
    /\ \A p \in Task : Visible(p) => task[p].tickets = GrantedTickets
    /\ \A t \in Task : call[t].op = "fork" /\ call[t].pc \in {"dup", "forked"} =>
          call[t].embryo.tickets = GrantedTickets

\* A step the class may see, after which the processes hold their grants.
Serves == (Class!Next \/ UNCHANGED Class!vars) /\ Granted'

LEMMA InvReady ==
  ASSUME Inv, Granted
  PROVE  /\ Ready(K) /\ Idles(K) /\ Good(K)
         /\ K.task = task /\ K.rq = rq /\ K.fault = fault
<1>1. Good(K) /\ K.task = task /\ K.rq = rq /\ K.fault = fault
  BY InvGood DEF K
<1>2. Idles(K)
  BY <1>1 DEF Idles, Granted
<1>3. ASSUME NEW p \in Task, Linked(rq.ltr, p) PROVE ltr_policy(task[p].policy)
  <2>1. task[p].on_rq /\ task[p].sched_class = "lottery"
    BY <1>3 DEF Inv, QueuesMatchTasks
  <2>2. Visible(p)
    BY <2>1 DEF Inv, TaskStates, Visible
  <2> QED BY <2>1, <2>2 DEF Inv, ClassFollowsPolicy
<1> QED BY <1>1, <1>2, <1>3 DEF Ready

\* A step that hands out no tickets and copies no task.
LEMMA GrantsKept ==
  ASSUME Granted, task'[Idle] = task[Idle],
         \A p \in Task : /\ task'[p].state # "DEAD" => task[p].state # "DEAD"
                         /\ task'[p].tickets = task[p].tickets,
         \A t \in Task : call'[t].op = "fork" /\ call'[t].pc \in {"dup", "forked"} => call'[t] = call[t]
  PROVE  Granted'
BY DEF Granted, Visible

\* A step that works on one task.
LEMMA GrantsKeptBut ==
  ASSUME Inv, Granted, NEW p \in Task, NEW new, task' = [task EXCEPT ![p] = new],
         new.state # "DEAD" => task[p].state # "DEAD", new.tickets = task[p].tickets,
         \A t \in Task : call'[t].op = "fork" /\ call'[t].pc \in {"dup", "forked"} => call'[t] = call[t]
  PROVE  Granted'
<1>1. task \in [Task \cup {Idle} -> TaskStruct] /\ p # Idle
  BY IdleAssumption DEF Inv, TypeOK
<1>2. /\ task'[Idle] = task[Idle] /\ task'[p] = new
      /\ \A q \in Task \ {p} : task'[q] = task[q]
  BY <1>1
<1> QED BY <1>2, GrantsKept

\* A step outside the run queue.
LEMMA QuietServes ==
  ASSUME Inv, Granted, UNCHANGED <<task, rq>>,
         \A t \in Task : call'[t].op = "fork" /\ call'[t].pc \in {"dup", "forked"} =>
            call'[t] = call[t] \/ call'[t].embryo.tickets = GrantedTickets
  PROVE  Serves
<1>1. UNCHANGED Class!vars
  BY DEF Class!vars
<1>2. Granted'
  BY DEF Granted, Visible
<1> QED BY <1>1, <1>2 DEF Serves

\* A step that queues, requeues or wakes p.
LEMMA ClassMoves ==
  ASSUME NEW n, Commit(n), NEW p \in Task, Linked(rq.ltr, p) \/ task[p].tickets = GrantedTickets,
         Passes(K, n) \/ Enqueues(K, n, p) \/ Requeues(K, n, p) \/ Switches(K, n, p)
  PROVE  Class!Next \/ UNCHANGED Class!vars
<1>1. K.rq = rq
  BY DEF K
<1>2. CASE Passes(K, n)
  BY <1>2, ClassPasses
<1>3. CASE Enqueues(K, n, p)
  BY <1>1, <1>3, ClassEnqueues DEF Enqueues
<1>4. CASE Requeues(K, n, p)
  BY <1>1, <1>4, ClassRequeues DEF Requeues
<1>5. CASE Switches(K, n, p)
  BY <1>1, <1>5, ClassSwitches DEF Switches
<1> QED BY <1>2, <1>3, <1>4, <1>5

\* A pass through __schedule, with prev possibly marked dead before.
LEMMA ScheduleServes ==
  ASSUME NEW k, Ready(k), SameView(K, k), k.rq = rq,
         NEW mode, NEW n \in __schedule(k, mode), Commit(n),
         mode = "SM_PREEMPT" \/ (k.rq.curr \in Task /\ k.task[k.rq.curr].on_rq)
  PROVE  Class!Next
<1>1. /\ Tickets(n) = Tickets(k) /\ n.rq.need_resched = FALSE
      /\ \/ n.rq.ltr = k.rq.ltr
         \/ Curr(k) # NULL /\ n.rq.ltr = dequeue_task_lottery(k.rq.ltr, Curr(k), Tickets(k))
      /\ \/ Curr(k) = NULL /\ Curr(n) = NULL
         \/ \E random \in RandomWord :
               Curr(n) = pick_next_task_lottery(n.rq.ltr, Tickets(k), Task, random)
  BY ScheduleView
<1>2. Tickets(k) = Tickets(K) /\ Curr(k) = Curr(K)
  BY DEF SameView
<1>3. CASE Curr(k) = NULL /\ Curr(n) = NULL
  <2>1. SameView(K, n) /\ n.rq.ltr = rq.ltr /\ n.rq.need_resched \in BOOLEAN /\ Curr(K) = NULL
    BY <1>1, <1>2, <1>3 DEF SameView
  <2> QED BY <2>1, ClassIsElsewhere
<1>4. ASSUME NEW random \in RandomWord,
             Curr(n) = pick_next_task_lottery(n.rq.ltr, Tickets(k), Task, random)
      PROVE  Class!Next
  <2>1. \/ n.rq.ltr = rq.ltr
        \/ Curr(K) # NULL /\ n.rq.ltr = dequeue_task_lottery(rq.ltr, Curr(K), Tickets(K))
    BY <1>1, <1>2
  <2>2. Tickets(n) = Tickets(K) /\ Curr(n) = pick_next_task_lottery(n.rq.ltr, Tickets(K), Task, random)
    BY <1>1, <1>2, <1>4
  <2> QED BY <1>1, <2>1, <2>2, ClassSchedules
<1> QED BY <1>1, <1>3, <1>4

\* From k to n, nothing changes but t, which keeps its tickets.
Keeps(k, n, t) ==
    \E new \in TaskStruct :
        n.task = [k.task EXCEPT ![t] = new] /\ new.tickets = k.task[t].tickets

\* __schedule takes prev off the queue or sets it running, and hands out no
\* tickets.
LEMMA ScheduleKeeps ==
  ASSUME NEW k, Good(k), NEW n, n \in __schedule(k, "SM_NONE"), NEW t,
         t = k.rq.curr /\ k.rq.curr \in Task /\ k.task[k.rq.curr].on_rq
  PROVE  Keeps(k, n, t)
<1>1. k.task \in [Task \cup {Idle} -> TaskStruct] /\ k.task[t] \in TaskStruct
  BY DEF Good, KState
<1> DEFINE prev == k.rq.curr
<1>2. /\ Good(n) /\ n.fault = k.fault
      /\ n.rq.curr \in Task => n.task[n.rq.curr].on_rq
      /\ \/ n.task = k.task /\ ("SM_NONE" = "SM_PREEMPT" \/ k.task[prev].state = "RUNNING")
         \/ /\ "SM_NONE" # "SM_PREEMPT"
            /\ k.task[prev].state = "INTERRUPTIBLE"
            /\ n.task = [k.task EXCEPT ![prev] = [@ EXCEPT !.state = "RUNNING"]]
         \/ /\ "SM_NONE" # "SM_PREEMPT"
            /\ k.task[prev].state # "RUNNING"
            /\ n.task = [k.task EXCEPT ![prev] = [@ EXCEPT !.on_rq = FALSE]]
  <2>1. prev \in Task /\ k.task[prev].on_rq
    OBVIOUS
  <2>2. Good(k) /\ n \in __schedule(k, "SM_NONE")
    OBVIOUS
  <2> QED BY <2>1, <2>2, ScheduleGood
<1>3. prev = t
  OBVIOUS
<1> HIDE DEF prev
<1>4. CASE n.task = k.task
  <2>1. n.task = [k.task EXCEPT ![t] = k.task[t]]
    BY <1>1, <1>4
  <2> QED BY <1>1, <2>1 DEF Keeps
<1>5. CASE k.task[t].state = "INTERRUPTIBLE" /\ n.task = [k.task EXCEPT ![t] = [@ EXCEPT !.state = "RUNNING"]]
  <2> DEFINE new == [k.task[t] EXCEPT !.state = "RUNNING"]
  <2>1. new \in TaskStruct /\ new.tickets = k.task[t].tickets
    BY <1>1 DEF TaskStruct, TaskState
  <2>2. n.task = [k.task EXCEPT ![t] = new]
    BY <1>5
  <2> HIDE DEF new
  <2> QED BY <2>1, <2>2 DEF Keeps
<1>6. CASE n.task = [k.task EXCEPT ![t] = [@ EXCEPT !.on_rq = FALSE]]
  <2> DEFINE new == [k.task[t] EXCEPT !.on_rq = FALSE]
  <2>1. new \in TaskStruct /\ new.tickets = k.task[t].tickets
    BY <1>1 DEF TaskStruct
  <2>2. n.task = [k.task EXCEPT ![t] = new]
    BY <1>6
  <2> HIDE DEF new
  <2> QED BY <2>1, <2>2 DEF Keeps
<1> QED BY <1>2, <1>3, <1>4, <1>5, <1>6

-----------------------------------------------------------------------------
(* One lemma per action.                                                   *)

LEMMA TickServes ==
  ASSUME Inv, Granted, Tick
  PROVE  Serves
<1>1. /\ Idles(K) /\ K \in KState /\ K.task = task /\ K.rq = rq /\ K.fault = fault
      /\ rq.need_resched \in BOOLEAN
  BY InvReady DEF Idles, Good, KState, RunQueue
<1>2. PICK should_preempt \in RandomWord, preempt \in BOOLEAN : Commit(scheduler_tick(K, should_preempt, preempt))
  BY DEF Tick
<1> DEFINE n == scheduler_tick(K, should_preempt, preempt)
<1>3. Alike(K, n)
  BY <1>1, TickAlike
<1>4. SameView(K, n) /\ n.rq.ltr = rq.ltr /\ n.task = task /\ n.rq.need_resched \in BOOLEAN
  BY <1>1, <1>3, AlikeView DEF Alike, KState, RunQueue
<1>5. Curr(K) # NULL =>
         n.rq.need_resched = (rq.need_resched \/ task_tick_lottery(rq.ltr, should_preempt))
  <2> SUFFICES ASSUME Curr(K) # NULL
               PROVE  n.rq.need_resched = (rq.need_resched \/ task_tick_lottery(rq.ltr, should_preempt))
    OBVIOUS
  <2>1. task[rq.curr].sched_class = "lottery"
    BY <1>1, CurrView
  <2>2. n = IF task_tick_lottery(rq.ltr, should_preempt) THEN resched_curr(K) ELSE K
    BY <1>1, <2>1 DEF scheduler_tick
  <2>3. resched_curr(K).rq.need_resched = TRUE
    BY <1>1 DEF resched_curr, KState, RunQueue
  <2> HIDE DEF n
  <2>4. task_tick_lottery(rq.ltr, should_preempt) \in BOOLEAN
    BY DEF task_tick_lottery
  <2>5. CASE task_tick_lottery(rq.ltr, should_preempt)
    BY <2>2, <2>3, <2>5
  <2>6. CASE ~ task_tick_lottery(rq.ltr, should_preempt)
    BY <1>1, <2>2, <2>6
  <2> QED BY <2>4, <2>5, <2>6
<1> HIDE DEF n
<1>6. Commit(n)
  BY <1>2 DEF n
<1>7. Class!Next
  <2>1. CASE Curr(K) = NULL
    BY <1>4, <1>6, <2>1, ClassIsElsewhere
  <2>2. CASE Curr(K) # NULL
    BY <1>2, <1>4, <1>5, <1>6, <2>2, ClassTicks
  <2> QED BY <2>1, <2>2
<1>8. Granted'
  <2>1. task' = task /\ UNCHANGED call
    BY <1>4, <1>6 DEF Commit, Tick
  <2> QED BY <2>1, GrantsKept
<1> QED BY <1>7, <1>8 DEF Serves

LEMMA PreemptServes ==
  ASSUME Inv, Granted, Preempt
  PROVE  Serves
<1>1. Ready(K) /\ Good(K) /\ K.task = task /\ K.rq = rq
  BY InvReady
<1>2. PICK n \in __schedule(K, "SM_PREEMPT") : Commit(n)
  BY DEF Preempt
<1>3. SameView(K, K) /\ ("SM_PREEMPT" = "SM_PREEMPT" \/ (K.rq.curr \in Task /\ K.task[K.rq.curr].on_rq))
  BY DEF SameView
<1>4. Class!Next
  BY <1>1, <1>2, <1>3, ScheduleServes
<1>5. n.task = K.task
  BY <1>1, <1>2, <1>3, ScheduleGood
<1>6. Granted'
  <2>1. task' = task /\ UNCHANGED call
    BY <1>1, <1>2, <1>5 DEF Commit, Preempt
  <2> QED BY <2>1, GrantsKept
<1> QED BY <1>4, <1>6 DEF Serves

LEMMA YieldServes ==
  ASSUME Inv, Granted, NEW t \in Task, do_sched_yield(t)
  PROVE  Serves
<1>1. Ready(K) /\ Good(K) /\ K.task = task /\ K.rq = rq
  BY InvReady
<1>2. PICK n \in __schedule(K, "SM_NONE") : Commit(n)
  BY DEF do_sched_yield
<1>3. rq.curr = t /\ task[t].on_rq /\ task[t].state # "DEAD" /\ UNCHANGED call
  BY CurrRuns DEF do_sched_yield, Runs
<1>4. SameView(K, K) /\ K.rq.curr = t /\ K.rq.curr \in Task /\ K.task[K.rq.curr].on_rq
  BY <1>1, <1>3 DEF SameView
<1>5. Class!Next
  BY <1>1, <1>2, <1>4, ScheduleServes
<1>6. PICK new \in TaskStruct : n.task = [K.task EXCEPT ![t] = new] /\ new.tickets = K.task[t].tickets
  <2>1. t = K.rq.curr /\ K.rq.curr \in Task /\ K.task[K.rq.curr].on_rq
    BY <1>4
  <2>2. Good(K)
    BY <1>1
  <2>3. n \in __schedule(K, "SM_NONE")
    BY <1>2
  <2>4. Keeps(K, n, t)
    BY <2>1, <2>2, <2>3, ScheduleKeeps
  <2> QED BY <2>4 DEF Keeps
<1>7. Granted'
  <2>1. task' = [task EXCEPT ![t] = new] /\ new.tickets = task[t].tickets
    BY <1>1, <1>2, <1>6 DEF Commit
  <2> QED BY <1>3, <2>1, GrantsKeptBut
<1> QED BY <1>5, <1>7 DEF Serves

\* The task that runs sets its own state.
LEMMA StateServes ==
  ASSUME Inv, Granted, NEW t \in Task, rq.curr = t, NEW state \in TaskState,
         task' = [task EXCEPT ![t].state = state], UNCHANGED <<rq, fault>>,
         \A u \in Task : call'[u].op = "fork" => call'[u] = call[u]
  PROVE  Serves
<1>1. /\ Idles(K) /\ K \in KState /\ K.task = task /\ K.rq = rq /\ K.fault = fault
      /\ task \in [Task \cup {Idle} -> TaskStruct]
  BY InvReady DEF Inv, TypeOK, Idles, Good
<1> DEFINE n == [K EXCEPT !.task[t].state = state]
<1>2. SameView(K, n) /\ n.rq = K.rq
  BY <1>1, StateView
<1>3. Commit(n)
  BY <1>1 DEF Commit, KState
<1> HIDE DEF n
<1>4. UNCHANGED Class!vars
  BY <1>1, <1>2, <1>3, ClassStays
<1>5. Granted'
  <2> DEFINE new == [task[t] EXCEPT !.state = state]
  <2>1. task' = [task EXCEPT ![t] = new] /\ new.tickets = task[t].tickets
    BY <1>1 DEF TaskStruct
  <2>2. task[t].state # "DEAD"
    BY CurrRuns
  <2>3. \A u \in Task : call'[u].op = "fork" /\ call'[u].pc \in {"dup", "forked"} => call'[u] = call[u]
    OBVIOUS
  <2>4. new.state # "DEAD" => task[t].state # "DEAD"
    BY <2>2
  <2> HIDE DEF new
  <2> QED BY <2>1, <2>3, <2>4, GrantsKeptBut
<1> QED BY <1>4, <1>5 DEF Serves

LEMMA SetCurrentStateServes ==
  ASSUME Inv, Granted, NEW t \in Task, set_current_state(t)
  PROVE  Serves
<1>1. /\ rq.curr = t /\ task' = [task EXCEPT ![t].state = "INTERRUPTIBLE"]
      /\ call' = [call EXCEPT ![t] = [op |-> "wait", pc |-> "test"]]
      /\ UNCHANGED <<rq, fault>>
  BY DEF set_current_state, Runs, RunsIn
<1>2. \A u \in Task : call'[u].op = "fork" => call'[u] = call[u]
  BY <1>1 DEF Inv, TypeOK
<1>3. "INTERRUPTIBLE" \in TaskState
  BY DEF TaskState
<1> QED BY <1>1, <1>2, <1>3, StateServes

LEMMA TestConditionServes ==
  ASSUME Inv, Granted, NEW t \in Task, test_condition(t)
  PROVE  Serves
<1>1. /\ rq.curr = t /\ call[t].op = "wait" /\ UNCHANGED <<rq, fault>>
      /\ call \in [Task -> CallType]
  BY DEF test_condition, RunsIn, Inv, TypeOK
<1>2. CASE cond[t]
  <2>1. task' = [task EXCEPT ![t].state = "RUNNING"] /\ call' = [call EXCEPT ![t] = NoCall]
    BY <1>2 DEF test_condition
  <2>2. \A u \in Task : call'[u].op = "fork" => call'[u] = call[u]
    BY <1>1, <2>1 DEF NoCall
  <2>3. "RUNNING" \in TaskState
    BY DEF TaskState
  <2> QED BY <1>1, <2>1, <2>2, <2>3, StateServes
<1>3. CASE ~ cond[t]
  <2>1. UNCHANGED task /\ call' = [call EXCEPT ![t].pc = "sleep"]
    BY <1>3 DEF test_condition
  <2>2. call[t] \in [op : {"wait"}, pc : {"test", "sleep", "again"}]
    BY <1>1, CallShape
  <2>3. call'[t].op = "wait" /\ \A u \in Task \ {t} : call'[u] = call[u]
    BY <1>1, <2>1, <2>2
  <2>4. \A u \in Task : call'[u].op = "fork" => call'[u] = call[u]
    BY <2>3
  <2> QED BY <1>1, <2>1, <2>4, QuietServes
<1> QED BY <1>2, <1>3

\* A task that blocks leaves the list, and the class draws.
LEMMA BlockServes ==
  ASSUME Inv, Granted, NEW t \in Task, schedule(t)
  PROVE  Serves
<1>1. Ready(K) /\ Good(K) /\ K.task = task /\ K.rq = rq
      /\ task \in [Task \cup {Idle} -> TaskStruct] /\ call \in [Task -> CallType]
  BY InvReady DEF Inv, TypeOK
<1>2. PICK n \in __schedule(K, "SM_NONE") : Commit(n)
  BY DEF schedule
<1>3. rq.curr = t /\ call[t].op = "wait" /\ call' = [call EXCEPT ![t].pc = "again"]
  BY DEF schedule, RunsIn
<1>4. task[t].on_rq /\ task[t].state # "DEAD"
  BY <1>3, CurrRuns
<1>5. SameView(K, K) /\ K.rq.curr = t /\ K.rq.curr \in Task /\ K.task[K.rq.curr].on_rq
  BY <1>1, <1>3, <1>4 DEF SameView
<1>6. Class!Next
  BY <1>1, <1>2, <1>5, ScheduleServes
<1>7. PICK new \in TaskStruct : n.task = [K.task EXCEPT ![t] = new] /\ new.tickets = K.task[t].tickets
  <2>1. t = K.rq.curr /\ K.rq.curr \in Task /\ K.task[K.rq.curr].on_rq
    BY <1>5
  <2>2. Good(K)
    BY <1>1
  <2>3. n \in __schedule(K, "SM_NONE")
    BY <1>2
  <2>4. Keeps(K, n, t)
    BY <2>1, <2>2, <2>3, ScheduleKeeps
  <2> QED BY <2>4 DEF Keeps
<1>8. task' = [task EXCEPT ![t] = new] /\ new.tickets = task[t].tickets
  BY <1>1, <1>2, <1>7 DEF Commit
<1>9. \A u \in Task : call'[u].op = "fork" => call'[u] = call[u]
  <2>1. call[t] \in [op : {"wait"}, pc : {"test", "sleep", "again"}]
    BY <1>1, <1>3, CallShape
  <2>2. call'[t].op = "wait" /\ \A u \in Task \ {t} : call'[u] = call[u]
    BY <1>1, <1>3, <2>1
  <2> QED BY <2>2
<1>10. Granted'
  BY <1>4, <1>8, <1>9, GrantsKeptBut
<1> QED BY <1>6, <1>10 DEF Serves

LEMMA WakeUpServes ==
  ASSUME Inv, Granted, NEW p \in Task, wake_up_process(p)
  PROVE  Serves
<1>1. Idles(K) /\ Good(K) /\ K.task = task /\ K.rq = rq /\ UNCHANGED call
      /\ task \in [Task \cup {Idle} -> TaskStruct]
  BY InvReady DEF Inv, TypeOK, wake_up_process
<1>2. PICK preempt \in BOOLEAN : Commit(try_to_wake_up(K, p, preempt))
  BY DEF wake_up_process
<1> DEFINE n == try_to_wake_up(K, p, preempt)
<1>3. Passes(K, n) \/ (task[p].state = "INTERRUPTIBLE" /\ Enqueues(K, n, p))
  BY <1>1, WakeUpView
<1>4. \/ n.task = [task EXCEPT ![p] = [task[p] EXCEPT !.state = "RUNNING", !.on_rq = TRUE]]
         /\ task[p].state = "INTERRUPTIBLE"
      \/ n = K
  <2>1. K.rq.curr = p => K.task[p].on_rq
    BY <1>1, CurrRuns
  <2>2. IF K.task[p].state = "INTERRUPTIBLE"
        THEN WorksOn(K, n, p)
             /\ n.task[p] = [K.task[p] EXCEPT !.state = "RUNNING", !.on_rq = TRUE]
        ELSE n = K
    BY <1>1, <2>1, WakeUpGood
  <2> HIDE DEF n
  <2> QED BY <1>1, <2>2 DEF WorksOn
<1> HIDE DEF n
<1>5. Commit(n)
  BY <1>2 DEF n
<1>6. Class!Next \/ UNCHANGED Class!vars
  <2>1. task[p].state = "INTERRUPTIBLE" => task[p].tickets = GrantedTickets
    BY DEF Granted, Visible
  <2>2. CASE Passes(K, n)
    BY <1>5, <2>2, ClassPasses
  <2>3. CASE task[p].state = "INTERRUPTIBLE" /\ Enqueues(K, n, p)
    BY <1>5, <2>1, <2>3, ClassMoves
  <2> QED BY <1>3, <2>2, <2>3
<1>7. Granted'
  <2>1. CASE n = K
    <3>1. task' = task
      BY <1>1, <1>5, <2>1 DEF Commit
    <3> QED BY <1>1, <3>1, GrantsKept
  <2>2. CASE n.task = [task EXCEPT ![p] = [task[p] EXCEPT !.state = "RUNNING", !.on_rq = TRUE]]
             /\ task[p].state = "INTERRUPTIBLE"
    <3> DEFINE new == [task[p] EXCEPT !.state = "RUNNING", !.on_rq = TRUE]
    <3>1. task' = [task EXCEPT ![p] = new] /\ new.tickets = task[p].tickets /\ task[p].state # "DEAD"
      BY <1>1, <1>5, <2>2 DEF Commit, TaskStruct
    <3> HIDE DEF new
    <3> QED BY <1>1, <3>1, GrantsKeptBut
  <2> QED BY <1>4, <2>1, <2>2
<1> QED BY <1>6, <1>7 DEF Serves

LEMMA SetConditionServes ==
  ASSUME Inv, Granted, NEW p \in Task, set_condition(p)
  PROVE  Serves
BY QuietServes DEF set_condition

\* The copy of a running task has its tickets.
LEMMA DupTaskServes ==
  ASSUME Inv, Granted, NEW t \in Task, dup_task_struct(t)
  PROVE  Serves
<1>1. rq.curr = t /\ UNCHANGED <<task, rq>> /\ call \in [Task -> CallType]
  BY DEF dup_task_struct, Runs, Inv, TypeOK
<1>2. PICK c \in Task, kind \in Clones :
         call' = [call EXCEPT ![t] = [op |-> "fork", pc |-> "dup", kind |-> kind, p |-> c,
                                      embryo |-> task[t]]]
  BY DEF dup_task_struct
<1>3. task[t].tickets = GrantedTickets
  BY <1>1, CurrRuns DEF Granted, Visible
<1>4. call'[t].embryo.tickets = GrantedTickets /\ \A u \in Task \ {t} : call'[u] = call[u]
  BY <1>1, <1>2, <1>3
<1> QED BY <1>1, <1>4, QuietServes

LEMMA CopyFailsServes ==
  ASSUME Inv, Granted, NEW t \in Task, copy_process_fails(t)
  PROVE  Serves
<1>1. /\ UNCHANGED <<task, rq>> /\ call' = [call EXCEPT ![t] = NoCall]
      /\ call \in [Task -> CallType]
  BY DEF copy_process_fails, Inv, TypeOK
<1>2. call'[t].op = "none" /\ \A u \in Task \ {t} : call'[u] = call[u]
  BY <1>1 DEF NoCall
<1> QED BY <1>1, <1>2, QuietServes

\* sched_fork leaves the tickets of the copy alone.
LEMMA ForkServes ==
  ASSUME Inv, Granted, NEW t \in Task, copy_process_sched_fork(t)
  PROVE  Serves
<1> DEFINE child == sched_fork(call[t].embryo, task[t])
<1>1. /\ call[t].op = "fork" /\ call[t].pc = "dup" /\ UNCHANGED <<task, rq>>
      /\ call' = [call EXCEPT ![t].pc = "forked", ![t].embryo = child]
      /\ call \in [Task -> CallType] /\ task[t] \in TaskStruct
  BY DEF copy_process_sched_fork, RunsIn, Inv, TypeOK
<1>2. call[t] \in [op : {"fork"}, pc : {"dup", "forked"}, kind : CloneKind, p : Task, embryo : TaskStruct]
  BY <1>1, CallShape
<1>3. child.tickets = GrantedTickets
  <2>1. child.tickets = call[t].embryo.tickets
    BY <1>1, <1>2, ForkClass
  <2> QED BY <1>1, <2>1 DEF Granted
<1> HIDE DEF child
<1>4. call'[t].embryo = child /\ \A u \in Task \ {t} : call'[u] = call[u]
  BY <1>1, <1>2
<1> QED BY <1>1, <1>3, <1>4, QuietServes

\* The child gets its tickets while it is off the queue.
LEMMA ChildServes ==
  ASSUME Inv, Granted, NEW c \in Task, task[c].state \in {"NEW", "DEAD"}, UNCHANGED rq,
         NEW child, task' = [task EXCEPT ![c] = child], child.tickets = GrantedTickets,
         \A u \in Task : call'[u].op = "fork" /\ call'[u].pc \in {"dup", "forked"} => call'[u] = call[u]
  PROVE  Serves
<1>1. task \in [Task \cup {Idle} -> TaskStruct] /\ c # Idle
  BY IdleAssumption DEF Inv, TypeOK
<1>2. task'[c] = child /\ \A p \in (Task \cup {Idle}) \ {c} : task'[p] = task[p]
  BY <1>1
<1>3. ~ task[c].on_rq
  BY DEF Inv, TaskStates
<1>4. ~ Linked(rq.ltr, c) /\ rq.curr # c
  BY <1>3 DEF Inv, QueuesMatchTasks, RunnableIsQueued
<1>5. Curr(K)' = Curr(K)
  <2>1. rq.curr \in Task \cup {Idle} /\ rq' = rq
    BY DEF Inv, TypeOK, RunQueue
  <2>2. task'[rq.curr] = task[rq.curr]
    BY <1>2, <1>4, <2>1
  <2> QED BY <2>1, <2>2 DEF Curr, K
<1>6. Class!Next
  <2>1. task' = [task EXCEPT ![c] = task'[c]] /\ task'[c].tickets = GrantedTickets
    BY <1>2
  <2> QED BY <1>1, <1>4, <1>5, <2>1, ClassClones
<1>7. Granted'
  <2>1. \A p \in Task : Visible(p)' => task'[p].tickets = GrantedTickets
    BY <1>2 DEF Granted, Visible
  <2>2. task'[Idle].sched_class = "idle"
    BY <1>1, <1>2 DEF Granted
  <2> QED BY <2>1, <2>2 DEF Granted
<1> QED BY <1>6, <1>7 DEF Serves

LEMMA AttachServes ==
  ASSUME Inv, Granted, NEW t \in Task, copy_process_attach(t)
  PROVE  Serves
<1> DEFINE new == [op |-> "fork", kind |-> call[t].kind, p |-> call[t].p,
                   pc |-> IF call[t].kind = "clone" THEN "grant" ELSE "wake"]
<1>1. /\ call[t].op = "fork" /\ call[t].pc = "forked" /\ UNCHANGED rq
      /\ task' = [task EXCEPT ![call[t].p] = call[t].embryo]
      /\ call \in [Task -> CallType]
  BY DEF copy_process_attach, RunsIn, Inv, TypeOK
<1>2. call' = [call EXCEPT ![t] = new]
  BY <1>1 DEF copy_process_attach
<1>3. call[t].p \in Task /\ task[call[t].p].state = "DEAD" /\ call[t].embryo.tickets = GrantedTickets
  BY <1>1, ForkChild DEF Inv, ForksPrivate, Granted
<1>4. call'[t].pc \notin {"dup", "forked"} /\ \A u \in Task \ {t} : call'[u] = call[u]
  BY <1>1, <1>2
<1> QED BY <1>1, <1>3, <1>4, ChildServes

LEMMA GrantServes ==
  ASSUME Inv, Granted, NEW t \in Task, grant_tickets(t)
  PROVE  Serves
<1>1. /\ call[t].op = "fork" /\ call[t].pc = "grant" /\ UNCHANGED rq
      /\ task' = [task EXCEPT ![call[t].p].tickets = GrantedTickets]
      /\ call' = [call EXCEPT ![t].pc = "wake"]
      /\ call \in [Task -> CallType] /\ task \in [Task \cup {Idle} -> TaskStruct]
  BY DEF grant_tickets, RunsIn, Inv, TypeOK
<1>2. PICK c \in Task : c = call[t].p /\ task[c].state = "NEW"
  BY <1>1, ForkChild DEF Inv, ForksPrivate
<1> DEFINE child == [task[c] EXCEPT !.tickets = GrantedTickets]
<1>3. task' = [task EXCEPT ![c] = child] /\ child.tickets = GrantedTickets
  BY <1>1, <1>2 DEF TaskStruct
<1> HIDE DEF child
<1>4. call[t] \in [op : {"fork"}, pc : {"grant", "wake"}, kind : CloneKind, p : Task]
  BY <1>1, CallShape
<1>5. call'[t].pc = "wake" /\ \A u \in Task \ {t} : call'[u] = call[u]
  BY <1>1, <1>4
<1> QED BY <1>1, <1>2, <1>3, <1>5, ChildServes

\* The first wake-up enqueues the child with its own grant.
LEMMA CloneWakeServes ==
  ASSUME Inv, Granted, NEW t \in Task, kernel_clone_wake(t)
  PROVE  Serves
<1>1. /\ call[t].op = "fork" /\ call[t].pc = "wake" /\ call' = [call EXCEPT ![t] = NoCall]
      /\ Idles(K) /\ Good(K) /\ K.task = task /\ K.rq = rq /\ call \in [Task -> CallType]
      /\ task \in [Task \cup {Idle} -> TaskStruct]
  BY InvReady DEF kernel_clone_wake, RunsIn, Inv, TypeOK
<1>2. PICK p \in Task : p = call[t].p /\ task[p].state = "NEW"
  BY <1>1, ForkChild DEF Inv, ForksPrivate
<1>3. PICK preempt \in BOOLEAN : Commit(wake_up_new_task(K, p, preempt))
  BY <1>2 DEF kernel_clone_wake
<1> DEFINE n == wake_up_new_task(K, p, preempt)
<1>4. ~ K.task[p].on_rq /\ task[p].tickets = GrantedTickets
  BY <1>1, <1>2 DEF Inv, TaskStates, Granted, Visible
<1>5. Passes(K, n) \/ Enqueues(K, n, p)
  BY <1>1, <1>4, WakeNewView
<1>6. WorksOn(K, n, p) /\ n.task[p] = [K.task[p] EXCEPT !.state = "RUNNING", !.on_rq = TRUE]
  <2>1. Good(K)
    BY <1>1
  <2>2. ~ K.task[p].on_rq
    BY <1>4
  <2> QED BY <2>1, <2>2, WakeNewGood
<1> HIDE DEF n
<1>7. Commit(n)
  BY <1>3 DEF n
<1>8. Class!Next \/ UNCHANGED Class!vars
  BY <1>4, <1>5, <1>7, ClassMoves
<1>9. Granted'
  <2> DEFINE new == [task[p] EXCEPT !.state = "RUNNING", !.on_rq = TRUE]
  <2>1. task' = [task EXCEPT ![p] = new]
    BY <1>1, <1>6, <1>7 DEF Commit, WorksOn
  <2>2. new.tickets = task[p].tickets
    BY <1>1 DEF TaskStruct
  <2>3. new.state # "DEAD" => task[p].state # "DEAD"
    BY <1>2
  <2>4. call'[t].op = "none" /\ \A u \in Task \ {t} : call'[u] = call[u]
    BY <1>1 DEF NoCall
  <2>5. \A u \in Task : call'[u].op = "fork" /\ call'[u].pc \in {"dup", "forked"} => call'[u] = call[u]
    BY <2>4
  <2> HIDE DEF new
  <2> QED BY <2>1, <2>2, <2>3, <2>5, GrantsKeptBut
<1> QED BY <1>8, <1>9 DEF Serves

\* A task that exits leaves the list, and the class draws.
LEMMA TaskDeadServes ==
  ASSUME Inv, Granted, NEW t \in Task, do_task_dead(t)
  PROVE  Serves
<1> DEFINE j == [K EXCEPT !.task[t].state = "DEAD"]
<1>1. /\ rq.curr = t /\ UNCHANGED call
      /\ Ready(K) /\ Idles(K) /\ K \in KState /\ K.task = task /\ K.rq = rq
      /\ task \in [Task \cup {Idle} -> TaskStruct]
  BY InvReady DEF do_task_dead, Runs, Inv, TypeOK, Good
<1>2. PICK n \in __schedule(j, "SM_NONE") : Commit(n)
  BY DEF do_task_dead
<1>3. task[t].on_rq /\ task[t].state # "DEAD"
  BY <1>1, CurrRuns
<1>4. /\ Idles(j) /\ SameView(K, j) /\ j.rq = K.rq
      /\ \A q \in Task : /\ j.task[q].policy = K.task[q].policy
                         /\ j.task[q].sched_class = K.task[q].sched_class
                         /\ j.task[q].on_rq = K.task[q].on_rq
  <2>1. "DEAD" \in TaskState
    BY DEF TaskState
  <2> QED BY <1>1, <2>1, StateView
<1>5. j.task = [task EXCEPT ![t] = [task[t] EXCEPT !.state = "DEAD"]]
  BY <1>1 DEF KState
<1> HIDE DEF j
<1>6. Ready(j) /\ Good(j)
  BY <1>1, <1>4 DEF Ready, Idles
<1>7. t = j.rq.curr /\ j.rq.curr \in Task /\ j.task[j.rq.curr].on_rq
  BY <1>1, <1>3, <1>4
<1>8. Class!Next
  <2>1. j.rq = rq
    BY <1>1, <1>4
  <2> QED BY <1>2, <1>4, <1>6, <1>7, <2>1, ScheduleServes
<1>9. Keeps(j, n, t)
  <2>1. n \in __schedule(j, "SM_NONE")
    BY <1>2
  <2> QED BY <1>6, <1>7, <2>1, ScheduleKeeps
<1>10. PICK new \in TaskStruct : n.task = [j.task EXCEPT ![t] = new] /\ new.tickets = j.task[t].tickets
  BY <1>9 DEF Keeps
<1>11. task' = [task EXCEPT ![t] = new] /\ new.tickets = task[t].tickets
  <2>1. j.task[t].tickets = task[t].tickets
    BY <1>1, <1>5 DEF TaskStruct
  <2>2. n.task = [task EXCEPT ![t] = new]
    BY <1>1, <1>5, <1>10
  <2> QED BY <1>2, <1>10, <2>1, <2>2 DEF Commit
<1>12. Granted'
  BY <1>1, <1>3, <1>11, GrantsKeptBut
<1> QED BY <1>8, <1>12 DEF Serves

LEMMA SetschedulerCheckServes ==
  ASSUME Inv, Granted, NEW t \in Task, NEW p \in Task, NEW request \in Requests,
         setscheduler_check(t, p, request)
  PROVE  Serves
<1>1. UNCHANGED <<task, rq>> /\ call \in [Task -> CallType]
  BY DEF setscheduler_check, Inv, TypeOK
<1>2. \A u \in Task : call'[u].op = "fork" => call'[u] = call[u]
  <2>1. CASE UNCHANGED call
    BY <2>1
  <2>2. CASE ~ UNCHANGED call
    <3>1. PICK a, policy, oldpolicy, reset :
             call' = [call EXCEPT ![t] = [op |-> "setsched", p |-> p, attr |-> a, policy |-> policy,
                                          oldpolicy |-> oldpolicy, reset_on_fork |-> reset]]
      BY <2>2 DEF setscheduler_check
    <3>2. call'[t].op = "setsched" /\ \A u \in Task \ {t} : call'[u] = call[u]
      BY <1>1, <3>1
    <3> QED BY <3>2
  <2> QED BY <2>1, <2>2
<1> QED BY <1>1, <1>2, QuietServes

LEMMA ReniceServes ==
  ASSUME Inv, Granted, NEW t \in Task, NEW p \in Task, NEW nice \in Nices, renice(t, p, nice)
  PROVE  Serves
<1>1. /\ Idles(K) /\ Good(K) /\ K.task = task /\ K.rq = rq /\ UNCHANGED call
      /\ task[p].state # "DEAD"
  BY InvReady DEF renice, Visible
<1>2. PICK preempt \in BOOLEAN : Commit(set_user_nice(K, p, nice, preempt))
  BY DEF renice
<1> DEFINE n == set_user_nice(K, p, nice, preempt)
<1>3. nice \in Int
  BY RequestAssumption
<1>4. Passes(K, n) \/ Requeues(K, n, p) \/ Switches(K, n, p)
  <2>1. K.rq.curr = p => K.task[p].on_rq
    BY <1>1, CurrRuns
  <2> QED BY <1>1, <1>3, <2>1, NiceView
<1>5. WorksOn(K, n, p) /\ n.task[p].tickets = K.task[p].tickets
  BY <1>1, <1>3, NiceGood
<1> HIDE DEF n
<1>6. Commit(n)
  BY <1>2 DEF n
<1>7. task[p].tickets = GrantedTickets
  BY <1>1 DEF Granted, Visible
<1>8. Class!Next \/ UNCHANGED Class!vars
  BY <1>4, <1>6, <1>7, ClassMoves
<1>9. Granted'
  <2> DEFINE new == n.task[p]
  <2>1. task' = [task EXCEPT ![p] = new] /\ new.tickets = task[p].tickets
    BY <1>1, <1>5, <1>6 DEF Commit, WorksOn
  <2>2. new.state # "DEAD" => task[p].state # "DEAD"
    BY <1>1
  <2>3. \A u \in Task : call'[u].op = "fork" /\ call'[u].pc \in {"dup", "forked"} => call'[u] = call[u]
    BY <1>1
  <2> HIDE DEF new
  <2> QED BY <2>1, <2>2, <2>3, GrantsKeptBut
<1> QED BY <1>8, <1>9 DEF Serves

\* Reading the runtime of a task changes nothing the class can see.
LEMMA ReadRuntimeServes ==
  ASSUME Inv, Granted, NEW t \in Task, read_runtime(t)
  PROVE  Serves
<1>1. UNCHANGED call /\ Commit(task_sched_runtime(K, t))
  BY DEF read_runtime
<1>2. task_sched_runtime(K, t).task = task /\ task_sched_runtime(K, t).rq = rq
  BY DEF task_sched_runtime, K
<1>3. UNCHANGED <<task, rq>>
  BY <1>1, <1>2 DEF Commit
<1> QED BY <1>1, <1>3, QuietServes

\* Under the lock: the reset flag alone, nothing, or a change of p's policy.
LEMMA SetschedulerLockedServes ==
  ASSUME Inv, Granted, NEW t \in Task, setscheduler_locked(t)
  PROVE  Serves
<1> DEFINE c == call[t]
<1>1. call[t].op = "setsched"
  BY DEF setscheduler_locked, RunsIn
<1>2. /\ Idles(K) /\ Good(K) /\ K \in KState /\ K.task = task /\ K.rq = rq
      /\ call \in [Task -> CallType] /\ task \in [Task \cup {Idle} -> TaskStruct]
  BY InvReady DEF Inv, TypeOK, Good
<1>3. c \in [op : {"setsched"}, p : Task, attr : RequestType, policy : Policy,
             oldpolicy : Policy \cup {SETPARAM_POLICY}, reset_on_fork : BOOLEAN]
  BY <1>1, <1>2, CallShape
<1>4. c.p \in Task /\ c.policy \in Policy /\ c.attr \in RequestType /\ c.reset_on_fork \in BOOLEAN
      /\ ltr_policy(c.policy)
  BY <1>1, <1>3 DEF Inv, RequestsLottery
<1>5. PICK p \in Task : p = c.p
  BY <1>4
<1> DEFINE flagged == [task[p] EXCEPT !.sched_reset_on_fork = c.reset_on_fork]
           k == [K EXCEPT !.task[p].sched_reset_on_fork = c.reset_on_fork]
           r == recheck(task[p], SETPARAM_POLICY, c.attr)
<1>6. \/ Commit(k) /\ call' = [call EXCEPT ![t] = NoCall]
      \/ /\ call' = [call EXCEPT ![t] =
                        IF r.allowed THEN [c EXCEPT !.policy = r.policy, !.oldpolicy = r.oldpolicy,
                                                    !.reset_on_fork = r.reset_on_fork]
                        ELSE NoCall]
         /\ UNCHANGED <<task, rq, fault>>
      \/ /\ \E new \in {change(k, c.p, c.policy, c.attr, preempt) : preempt \in BOOLEAN} : Commit(new)
         /\ call' = [call EXCEPT ![t] = NoCall]
  BY <1>5 DEF setscheduler_locked
<1>7. task[p] \in TaskStruct /\ task[p].sched_class \in Classes
  BY <1>2 DEF Good, NoneIdle
<1>8. /\ flagged \in TaskStruct /\ flagged.state = task[p].state /\ flagged.on_rq = task[p].on_rq
      /\ flagged.sched_class = task[p].sched_class /\ flagged.tickets = task[p].tickets
  BY <1>4, <1>7 DEF TaskStruct
<1>9. k = [K EXCEPT !.task[p] = flagged] /\ k.task = [task EXCEPT ![p] = flagged] /\ k.rq = rq
  BY <1>2 DEF KState
<1> HIDE DEF k
<1>10. Good(k)
  <2> HIDE DEF flagged
  <2> QED BY <1>2, <1>7, <1>8, <1>9, GoodUpdate
<1> HIDE DEF flagged
<1>11. k.task[p] = flagged /\ \A q \in (Task \cup {Idle}) \ {p} : k.task[q] = task[q]
  BY <1>2, <1>9
<1>12. SameView(K, k)
  <2>1. \A q \in Task \cup {Idle} : /\ k.task[q].tickets = task[q].tickets
                                    /\ k.task[q].sched_class = task[q].sched_class
    BY <1>8, <1>11
  <2>2. rq.curr \in Task \cup {Idle}
    BY DEF Inv, TypeOK, RunQueue
  <2> QED BY <1>2, <1>9, <2>1, <2>2 DEF SameView, Tickets, Curr
<1>13. Idles(k)
  BY <1>2, <1>10, <1>11, IdleAssumption DEF Idles
<1>14. \A u \in Task : call'[u].op = "fork" => call'[u] = call[u]
  <2> DEFINE again == [c EXCEPT !.policy = r.policy, !.oldpolicy = r.oldpolicy,
                                !.reset_on_fork = r.reset_on_fork]
  <2>1. again.op = "setsched" /\ NoCall.op = "none"
    BY <1>3 DEF NoCall
  <2> HIDE DEF again
  <2>2. \E new \in {again, NoCall} : call' = [call EXCEPT ![t] = new]
    BY <1>6 DEF again
  <2>3. call'[t].op # "fork" /\ \A u \in Task \ {t} : call'[u] = call[u]
    BY <1>2, <2>1, <2>2
  <2> QED BY <2>3
<1> HIDE DEF r
<1>15. CASE Commit(k)
  <2>1. UNCHANGED Class!vars
    BY <1>2, <1>9, <1>12, <1>15, ClassStays
  <2>2. task' = [task EXCEPT ![p] = flagged]
    BY <1>9, <1>15 DEF Commit
  <2>3. Granted'
    BY <1>8, <1>14, <2>2, GrantsKeptBut
  <2> QED BY <2>1, <2>3 DEF Serves
<1>16. CASE UNCHANGED <<task, rq, fault>>
  BY <1>14, <1>16, QuietServes
<1>17. CASE \E new \in {change(k, c.p, c.policy, c.attr, preempt) : preempt \in BOOLEAN} : Commit(new)
  <2>1. PICK preempt \in BOOLEAN : Commit(change(k, p, c.policy, c.attr, preempt))
    BY <1>5, <1>17
  <2> DEFINE n == change(k, p, c.policy, c.attr, preempt)
  <2>2. k.rq.curr = p => k.task[p].on_rq
    BY <1>8, <1>9, <1>11, CurrRuns
  <2>3. Passes(k, n) \/ Requeues(k, n, p) \/ Switches(k, n, p)
    BY <1>4, <1>13, <2>2, ChangeView
  <2>4. WorksOn(k, n, p) /\ n.task[p].state = k.task[p].state /\ n.task[p].tickets = k.task[p].tickets
    BY <1>4, <1>10, ChangeGood
  <2> HIDE DEF n
  <2>5. Commit(n)
    BY <2>1 DEF n
  <2>6. Tickets(k) = Tickets(K) /\ Curr(k) = Curr(K) /\ k.rq = K.rq
    BY <1>2, <1>9, <1>12 DEF SameView
  <2>7. ASSUME Passes(k, n) PROVE Class!Next \/ UNCHANGED Class!vars
    <3>1. Passes(K, n)
      BY <2>6, <2>7 DEF Passes, SameView
    <3>2. Class!Next \/ UNCHANGED Class!vars
      BY <2>5, <3>1, ClassPasses
    <3> QED BY <3>2
  <2>8. ASSUME Requeues(k, n, p) PROVE Class!Next \/ UNCHANGED Class!vars
    <3>1. Requeues(K, n, p) /\ Linked(rq.ltr, p)
      BY <1>2, <2>6, <2>8 DEF Requeues, SameView
    <3> QED BY <2>5, <3>1, ClassMoves
  <2>9. ASSUME Switches(k, n, p) PROVE Class!Next \/ UNCHANGED Class!vars
    <3>1. k.task[p].on_rq /\ K.task[p].on_rq
      BY <1>2, <1>8, <1>11, <2>9 DEF Switches
    <3>2. Switches(K, n, p)
      BY <2>6, <2>9, <3>1 DEF Switches
    <3>3. task[p].tickets = GrantedTickets
      BY <1>2, <3>1 DEF Inv, TaskStates, Granted, Visible
    <3> QED BY <2>5, <3>2, <3>3, ClassMoves
  <2>10. Granted'
    <3> DEFINE new == n.task[p]
    <3>1. task' = [task EXCEPT ![p] = new]
      <4>1. n.task = [k.task EXCEPT ![p] = new]
        BY <2>4 DEF WorksOn
      <4> HIDE DEF new
      <4>2. /\ task \in [Task \cup {Idle} -> TaskStruct]
            /\ k.task = [task EXCEPT ![p] = flagged]
        BY <1>2, <1>9
      <4>3. [k.task EXCEPT ![p] = new] = [task EXCEPT ![p] = new]
        BY <4>2
      <4> QED BY <2>5, <4>1, <4>3 DEF Commit
    <3>2. new.tickets = task[p].tickets /\ new.state = task[p].state
      BY <1>8, <1>11, <2>4
    <3> HIDE DEF new
    <3> QED BY <1>14, <3>1, <3>2, GrantsKeptBut
  <2> QED BY <2>3, <2>7, <2>8, <2>9, <2>10 DEF Serves
<1> QED BY <1>6, <1>15, <1>16, <1>17

-----------------------------------------------------------------------------
(* The theorem.                                                            *)

\* At boot no process is in the class.
LEMMA InitServes ==
  ASSUME Init
  PROVE  Class!Init /\ Granted
<1>1. PICK processes \in SUBSET Task : \E first \in processes :
         /\ task = [p \in Task \cup {Idle} |->
                       IF p \in processes THEN [FreeTask EXCEPT !.state = "RUNNING", !.on_rq = TRUE,
                                                          !.tickets = GrantedTickets]
                       ELSE IF p = Idle THEN [FreeTask EXCEPT !.state = "RUNNING", !.on_rq = TRUE,
                                                              !.sched_class = "idle"]
                       ELSE FreeTask]
         /\ rq = [curr |-> first, need_resched |-> FALSE, ltr |-> init_ltr_rq,
                  nr_running |-> Cardinality(processes),
                  queued |-> [fair |-> processes, rt |-> {}, dl |-> {}]]
  BY DEF Init
<1> DEFINE process == [FreeTask EXCEPT !.state = "RUNNING", !.on_rq = TRUE, !.tickets = GrantedTickets]
           idle == [FreeTask EXCEPT !.state = "RUNNING", !.on_rq = TRUE, !.sched_class = "idle"]
<1>2. PICK first \in processes :
         /\ task = [p \in Task \cup {Idle} |->
                       IF p \in processes THEN process ELSE IF p = Idle THEN idle ELSE FreeTask]
         /\ rq = [curr |-> first, need_resched |-> FALSE, ltr |-> init_ltr_rq,
                  nr_running |-> Cardinality(processes),
                  queued |-> [fair |-> processes, rt |-> {}, dl |-> {}]]
  BY <1>1
<1>3. /\ process.tickets = GrantedTickets /\ process.sched_class = "fair"
      /\ FreeTask.tickets = 0 /\ FreeTask.state = "DEAD" /\ idle.sched_class = "idle"
  BY DEF FreeTask
<1> HIDE DEF process, idle
<1>4. \A p \in Task : task[p] = IF p \in processes THEN process ELSE FreeTask
  BY <1>2, IdleAssumption
<1>5. task[Idle] = idle /\ task[first] = process
  BY <1>2, <1>4, IdleAssumption
<1>6. call = [p \in Task |-> NoCall]
  BY DEF Init
<1>7. Granted
  <2>1. \A t \in Task : call[t].op = "none"
    BY <1>6 DEF NoCall
  <2> QED BY <1>3, <1>4, <1>5, <2>1 DEF Granted, Visible
<1>8. Class!Init
  <2>1. rq.ltr = Class!init_ltr_rq /\ rq.need_resched = FALSE /\ rq.curr = first
    BY <1>2 DEF Class!init_ltr_rq, init_ltr_rq
  <2>2. [p \in Task |-> task[p].tickets] \in [Task -> {0} \cup {GrantedTickets}]
    BY <1>3, <1>4
  <2>3. task[rq.curr].sched_class # "lottery"
    BY <1>3, <1>5, <2>1
  <2> QED BY <2>1, <2>2, <2>3 DEF Class!Init
<1> QED BY <1>7, <1>8

\* Every step of the kernel is one of the class, or none.
LEMMA NextServes ==
  ASSUME Inv, Granted, [Next]_vars
  PROVE  Serves
<1>1. CASE UNCHANGED vars
  BY <1>1, QuietServes DEF vars
<1>2. CASE Tick
  BY <1>2, TickServes
<1>3. CASE Preempt
  BY <1>3, PreemptServes
<1>4. CASE Halted
  BY <1>1, <1>4 DEF Halted
<1>5. ASSUME NEW t \in Task, TaskStep(t)
      PROVE  Serves
  <2>1. CASE do_sched_yield(t)
    BY <2>1, YieldServes
  <2>2. CASE set_current_state(t)
    BY <2>2, SetCurrentStateServes
  <2>3. CASE test_condition(t)
    BY <2>3, TestConditionServes
  <2>4. CASE schedule(t)
    BY <2>4, BlockServes
  <2>5. CASE dup_task_struct(t)
    BY <2>5, DupTaskServes
  <2>6. CASE copy_process_fails(t)
    BY <2>6, CopyFailsServes
  <2>7. CASE copy_process_sched_fork(t)
    BY <2>7, ForkServes
  <2>8. CASE copy_process_attach(t)
    BY <2>8, AttachServes
  <2>9. CASE grant_tickets(t)
    BY <2>9, GrantServes
  <2>10. CASE kernel_clone_wake(t)
    BY <2>10, CloneWakeServes
  <2>11. CASE do_task_dead(t)
    BY <2>11, TaskDeadServes
  <2>12. CASE \E p \in Task, request \in Requests : setscheduler_check(t, p, request)
    BY <2>12, SetschedulerCheckServes
  <2>13. CASE setscheduler_locked(t)
    BY <2>13, SetschedulerLockedServes
  <2>14. CASE \E p \in Task, nice \in Nices : renice(t, p, nice)
    BY <2>14, ReniceServes
  <2>15. CASE read_runtime(t)
    BY <2>15, ReadRuntimeServes
  <2> QED BY <1>5, <2>1, <2>2, <2>3, <2>4, <2>5, <2>6, <2>7, <2>8, <2>9, <2>10, <2>11, <2>12,
             <2>13, <2>14, <2>15 DEF TaskStep
<1>6. ASSUME NEW t \in Task, set_condition(t)
      PROVE  Serves
  BY <1>6, SetConditionServes
<1>7. ASSUME NEW t \in Task, wake_up_process(t)
      PROVE  Serves
  BY <1>7, WakeUpServes
<1> QED BY <1>1, <1>2, <1>3, <1>4, <1>5, <1>6, <1>7 DEF Next

\* core.c calls the hooks of the lottery class by the protocol of
\* LotteryClass: what the class shows of every behaviour of the kernel is a
\* behaviour of the class.
THEOREM KernelImplementsClass == Spec => ImplementsClass
<1>1. Init => Class!Init /\ Granted
  BY InitServes
<1>2. Inv /\ Granted /\ [Next]_vars => [Class!Next]_(Class!vars) /\ Granted'
  BY NextServes DEF Serves
<1> QED BY <1>1, <1>2, KernelInvariant, PTL DEF Spec, ImplementsClass, Class!Spec

-----------------------------------------------------------------------------
(* What the class promises holds in the kernel.  The theorems about        *)
(* LotteryClass are carried over the refinement: in every reachable state  *)
(* of KernelSched the counters of the lottery queue are exact, and every   *)
(* queued task has the same share of the draw.                             *)

\* LotteryClass and its theorems for the run queue of the kernel.
Proved == INSTANCE LotteryClassProofs WITH
    CloneTickets <- {GrantedTickets},
    MaxTickets <- GrantedTickets,
    ltr <- rq.ltr,
    tickets <- [p \in Task |-> task[p].tickets],
    curr <- IF task[rq.curr].sched_class = "lottery" THEN rq.curr ELSE NULL,
    need_resched <- rq.need_resched

\* The tickets of all tasks fit into an unsigned int.
GrantsFit == Cardinality(Task) < Word /\ Cardinality(Task) * GrantedTickets < Word

\* nr_running and total_tickets of the lottery queue are the length of the
\* list and the sum over it.
QueueCounted ==
    /\ rq.ltr.nr_running = Len(rq.ltr.queue)
    /\ rq.ltr.total_tickets = TicketCount(rq.ltr.queue, Tickets(K))[Len(rq.ltr.queue)]

\* Whatever its policy was before, however it came to the queue and however
\* often its nice value changed, a queued lottery task wins with as many of
\* the lucky numbers as kernel_clone granted it tickets.
EqualShares ==
    LET Entrants == {p \in Task : ltr_policy(task[p].policy)}
        Wins(p) == {lucky_one \in 0 .. rq.ltr.total_tickets - 1 :
                       pick_next_task_lottery(rq.ltr, Tickets(K), Entrants, lucky_one) = p}
    IN  \A p \in Task : Linked(rq.ltr, p) => Cardinality(Wins(p)) = GrantedTickets

-----------------------------------------------------------------------------
(* The two instances of LotteryClass are one.                              *)

LEMMA ClassAssumptions ==
  ASSUME GrantsFit
  PROVE  Proved!TaskAssumption /\ Proved!TicketsAssumption /\ Proved!WidthAssumption
<1>1. Proved!IsFiniteSet(Task) <=> IsFiniteSet(Task)
  BY DEF IsFiniteSet, Proved!IsFiniteSet
<1>2. Proved!Cardinality(Task) = Cardinality(Task)
  BY DEF Cardinality, Proved!Cardinality
<1>3. GrantedTickets \in Nat /\ {GrantedTickets} \subseteq 1 .. GrantedTickets
  BY DEF GrantedTickets
<1> QED BY <1>1, <1>2, <1>3, ProcessAssumption DEF GrantsFit

LEMMA SameQueue ==
  ASSUME NEW l, NEW p, NEW tk, NEW r
  PROVE  /\ Proved!Linked(l, p) <=> Class!Linked(l, p)
         /\ Proved!enqueue_task_lottery(l, p, tk) = Class!enqueue_task_lottery(l, p, tk)
         /\ Proved!dequeue_task_lottery(l, p, tk) = Class!dequeue_task_lottery(l, p, tk)
         /\ Proved!task_tick_lottery(l, r) = Class!task_tick_lottery(l, r)
         /\ Proved!RandomWord = Class!RandomWord
<1>1. Proved!Linked(l, p) <=> Class!Linked(l, p)
  BY DEF Proved!Linked, Class!Linked
<1>2. Proved!enqueue_task_lottery(l, p, tk) = Class!enqueue_task_lottery(l, p, tk)
  BY DEF Proved!enqueue_task_lottery, Class!enqueue_task_lottery
<1>3. Proved!dequeue_task_lottery(l, p, tk) = Class!dequeue_task_lottery(l, p, tk)
  BY DEF Proved!dequeue_task_lottery, Class!dequeue_task_lottery, Proved!Position, Class!Position,
         Proved!RemoveAt, Class!RemoveAt
<1>4. Proved!task_tick_lottery(l, r) = Class!task_tick_lottery(l, r)
  BY DEF Proved!task_tick_lottery, Class!task_tick_lottery
<1>5. Proved!RandomWord = Class!RandomWord
  BY DEF Proved!RandomWord, Class!RandomWord
<1> QED BY <1>1, <1>2, <1>3, <1>4, <1>5

LEMMA SameDraw ==
  ASSUME NEW l, NEW tk, NEW E, NEW random
  PROVE  /\ Proved!pick_next_task_lottery(l, tk, E, random) = pick_next_task_lottery(l, tk, E, random)
         /\ Class!pick_next_task_lottery(l, tk, E, random) = pick_next_task_lottery(l, tk, E, random)
BY ClassDraws DEF Proved!pick_next_task_lottery, pick_next_task_lottery, Proved!Stop, Stop,
       Proved!Hits, Hits, Proved!TicketsBefore, TicketsBefore, Proved!Min, Min

LEMMA SameSpec == ImplementsClass => Proved!Spec
<1>1. Class!Init => Proved!Init
  BY DEF Class!Init, Proved!Init, Class!init_ltr_rq, Proved!init_ltr_rq
<1>2. Class!Next => Proved!Next
  <2>1. \A l, random : Class!Schedule(l, random) => Proved!Schedule(l, random)
    BY SameDraw DEF Class!Schedule, Proved!Schedule
  <2>2. ASSUME NEW p \in Task, Class!Clone(p) PROVE Proved!Clone(p)
    BY <2>2, SameQueue DEF Class!Clone, Proved!Clone
  <2>3. ASSUME NEW p \in Task, Class!Enqueue(p) PROVE Proved!Enqueue(p)
    BY <2>3, SameQueue DEF Class!Enqueue, Proved!Enqueue
  <2>4. ASSUME NEW p \in Task, Class!SwitchTo(p) PROVE Proved!SwitchTo(p)
    BY <2>4, SameQueue DEF Class!SwitchTo, Proved!SwitchTo
  <2>5. ASSUME NEW p \in Task, Class!Requeue(p) PROVE Proved!Requeue(p)
    BY <2>5, SameQueue DEF Class!Requeue, Proved!Requeue
  <2>6. ASSUME Class!Tick PROVE Proved!Tick
    BY <2>6, SameQueue DEF Class!Tick, Proved!Tick
  <2>7. ASSUME Class!Block PROVE Proved!Block
    BY <2>1, <2>7, SameQueue DEF Class!Block, Proved!Block
  <2>8. ASSUME Class!Reschedule PROVE Proved!Reschedule
    BY <2>1, <2>8, SameQueue DEF Class!Reschedule, Proved!Reschedule
  <2>9. ASSUME Class!OtherClass PROVE Proved!OtherClass
    BY <2>9 DEF Class!OtherClass, Proved!OtherClass
  <2> QED BY <2>2, <2>3, <2>4, <2>5, <2>6, <2>7, <2>8, <2>9 DEF Class!Next, Proved!Next
<1>3. [Class!Next]_(Class!vars) => [Proved!Next]_(Proved!vars)
  BY <1>2 DEF Class!vars, Proved!vars
<1> QED BY <1>1, <1>3, PTL DEF ImplementsClass, Class!Spec, Proved!Spec

-----------------------------------------------------------------------------
(* The theorems.                                                           *)

\* The counters of the lottery queue are exact in the whole kernel.
THEOREM KernelCountsExactly == ASSUME GrantsFit PROVE Spec => []QueueCounted
<1>1. Proved!TaskAssumption /\ Proved!TicketsAssumption /\ Proved!WidthAssumption
  BY ClassAssumptions
<1>2. (Word \in Nat \ {0}) /\ NULL \notin Task
  BY WordAssumption, NULLAssumption
<1>3. Proved!Accounting => QueueCounted
  BY DEF Proved!Accounting, QueueCounted, Proved!TicketCount, TicketCount, Tickets, K
<1> QED BY <1>1, <1>2, <1>3, KernelImplementsClass, SameSpec, Proved!AccountingCorrect, PTL

\* The processes hold their grants in every reachable state.
LEMMA AlwaysGranted == Spec => []Granted
<1>1. Init => Granted
  BY InitServes
<1>2. Inv /\ Granted /\ [Next]_vars => Granted'
  BY NextServes DEF Serves
<1> QED BY <1>1, <1>2, KernelInvariant, PTL DEF Spec

\* Every queued lottery task has the same share of the draw, whatever brought
\* it to the queue.
THEOREM KernelDrawsEqually == ASSUME GrantsFit PROVE Spec => []EqualShares
<1>1. Proved!TaskAssumption /\ Proved!TicketsAssumption /\ Proved!WidthAssumption
  BY ClassAssumptions
<1>2. (Word \in Nat \ {0}) /\ NULL \notin Task
  BY WordAssumption, NULLAssumption
<1>3. Inv /\ Granted /\ Proved!ProportionalShare => EqualShares
  <2> SUFFICES ASSUME Inv, Granted, Proved!ProportionalShare, NEW p \in Task, Linked(rq.ltr, p)
               PROVE  LET Entrants == {q \in Task : ltr_policy(task[q].policy)}
                      IN  Cardinality({lucky_one \in 0 .. rq.ltr.total_tickets - 1 :
                             pick_next_task_lottery(rq.ltr, Tickets(K), Entrants, lucky_one) = p})
                          = GrantedTickets
    BY DEF EqualShares
  <2> DEFINE Entrants == {q \in Task : ltr_policy(task[q].policy)}
             lucky == 0 .. rq.ltr.total_tickets - 1
             wins == {lucky_one \in lucky : pick_next_task_lottery(rq.ltr, Tickets(K), Entrants, lucky_one) = p}
             all == {lucky_one \in lucky : pick_next_task_lottery(rq.ltr, Tickets(K), Task, lucky_one) = p}
             proved == {lucky_one \in lucky : Proved!pick_next_task_lottery(rq.ltr, Tickets(K), Task, lucky_one) = p}
  <2>1. \A random : pick_next_task_lottery(rq.ltr, Tickets(K), Entrants, random)
                    = pick_next_task_lottery(rq.ltr, Tickets(K), Task, random)
    <3>1. rq.ltr \in ltr_rqType
      BY DEF Inv, TypeOK, RunQueue
    <3>2. \A q \in Task : Linked(rq.ltr, q) => q \in Entrants
      BY InvReady DEF Ready
    <3> HIDE DEF Entrants
    <3> QED BY <3>1, <3>2, DrawAmongAll
  <2>2. wins = all
    <3> HIDE DEF Entrants, lucky
    <3> QED BY <2>1
  <2>3. proved = all
    <3> HIDE DEF lucky
    <3> QED BY SameDraw
  <2>4. task[p].tickets = GrantedTickets
    <3>1. task[p].on_rq
      BY DEF Inv, QueuesMatchTasks
    <3>2. task[p].state # "DEAD"
      BY <3>1 DEF Inv, TaskStates
    <3> QED BY <3>2 DEF Granted, Visible
  <2>5. Cardinality(proved) = GrantedTickets
    <3>1. Proved!Cardinality(proved) = Cardinality(proved)
      BY DEF Cardinality, Proved!Cardinality
    <3>2. Tickets(K) = [q \in Task |-> task[q].tickets]
      BY DEF Tickets, K
    <3>3. Proved!Linked(rq.ltr, p)
      BY DEF Proved!Linked, Linked
    <3>4. Proved!Cardinality(proved) = [q \in Task |-> task[q].tickets][p]
      BY <3>2, <3>3 DEF Proved!ProportionalShare
    <3> QED BY <2>4, <3>1, <3>4
  <2> QED BY <2>2, <2>3, <2>5
<1> QED BY <1>1, <1>2, <1>3, KernelInvariant, AlwaysGranted, KernelImplementsClass, SameSpec,
           Proved!DrawProportional, PTL
=============================================================================
