------------------------- MODULE LotteryClassProofs -------------------------
(***************************************************************************)
(* Theorems about LotteryClass for every set of tasks, every word size and *)
(* every grant of tickets that fits the word.                              *)
(***************************************************************************)
EXTENDS LotteryClass, SequenceTheorems, FiniteSetTheorems, WellFoundedInduction, TLAPS

-----------------------------------------------------------------------------
(* Lemmas about the operators of Lottery, for every queue: what the sums   *)
(* over the queue are, how enqueueing and dequeueing change them, and that *)
(* a draw always stops at the holder of the lucky ticket.                  *)

\* Every non-empty set of naturals has a least element.  Induction over the
\* queue is done by looking at a least counterexample.
LEMMA LeastElement ==
  ASSUME NEW S \in SUBSET Nat, S # {}
  PROVE  \E m \in S : \A n \in S : m <= n
<1> DEFINE Less == {pair \in Nat \X Nat : pair[1] < pair[2]}
<1>1. IsWellFoundedOn(Less, Nat)
  BY NatLessThanWellFounded DEF OpToRel
<1> HIDE DEF Less
<1>2. PICK m \in S : \A n \in S : ~ (<<n, m>> \in Less)
  BY <1>1, WFMin
<1>3. \A n \in S : ~ (n < m)
  BY <1>2 DEF Less
<1> QED BY <1>3

\* s sums the tickets of the first m entries of the queue.
RunningSum(s, queue, granted, m) ==
    s = [i \in 0 .. m |-> IF i = 0 THEN 0 ELSE s[i-1] + granted[queue[i]]]

\* A running sum of tickets is a function into the naturals.
LEMMA RunningSumType ==
  ASSUME NEW queue \in Seq(Task), NEW granted \in [Task -> Nat], NEW m \in 0 .. Len(queue),
         NEW s, RunningSum(s, queue, granted, m)
  PROVE  /\ s \in [0 .. m -> Nat]
         /\ s[0] = 0
         /\ \A i \in 1 .. m : s[i] = s[i-1] + granted[queue[i]]
<1>0. m \in Nat /\ \A i \in 1 .. m : queue[i] \in Task
  OBVIOUS
<1>1. s[0] = 0 /\ \A i \in 1 .. m : s[i] = s[i-1] + granted[queue[i]]
  BY <1>0 DEF RunningSum
<1> DEFINE Wrong == {i \in 0 .. m : s[i] \notin Nat}
<1>2. Wrong = {}
  <2> SUFFICES ASSUME Wrong # {} PROVE FALSE
    OBVIOUS
  <2>0. Wrong \in SUBSET Nat
    BY <1>0
  <2>1. PICK k \in Wrong : \A n \in Wrong : k <= n
    BY <2>0, LeastElement
  <2>2. k \in 1 .. m
    BY <2>1, <1>1, <1>0
  <2>3. s[k-1] \in Nat
    BY <2>1, <2>2, <1>0
  <2>4. queue[k] \in Task /\ s[k] = s[k-1] + granted[queue[k]]
    BY <2>2, <1>0, <1>1
  <2>5. s[k] \in Nat
    BY <2>3, <2>4
  <2> QED BY <2>1, <2>5
<1>3. s = [i \in 0 .. m |-> s[i]]
  BY DEF RunningSum
<1> QED BY <1>1, <1>2, <1>3

\* Every prefix of the queue has a running sum.
LEMMA RunningSumExists ==
  ASSUME NEW queue \in Seq(Task), NEW granted \in [Task -> Nat]
  PROVE  \A m \in 0 .. Len(queue) : \E s : RunningSum(s, queue, granted, m)
<1> DEFINE Bad == {m \in 0 .. Len(queue) : ~ \E s : RunningSum(s, queue, granted, m)}
<1>0. Len(queue) \in Nat /\ \A i \in 1 .. Len(queue) : queue[i] \in Task
  OBVIOUS
<1> SUFFICES ASSUME Bad # {} PROVE FALSE
  OBVIOUS
<1>1. Bad \in SUBSET Nat
  BY <1>0
<1>2. PICK m \in Bad : \A n \in Bad : m <= n
  BY <1>1, LeastElement
<1>3. CASE m = 0
  <2> DEFINE s == [i \in 0 .. 0 |-> 0]
  <2>1. RunningSum(s, queue, granted, 0)
    BY DEF RunningSum
  <2> QED BY <2>1, <1>2, <1>3
<1>4. CASE m # 0
  <2>0. m \in 1 .. Len(queue)
    BY <1>2, <1>4, <1>0
  <2>1. m - 1 \in 0 .. Len(queue) /\ m - 1 \notin Bad
    <3>1. m - 1 \in 0 .. Len(queue) /\ ~ (m <= m - 1)
      BY <2>0, <1>0
    <3> QED BY <3>1, <1>2
  <2>2. PICK g : RunningSum(g, queue, granted, m-1)
    BY <2>1
  <2>3. /\ g \in [0 .. m-1 -> Nat]
        /\ g[0] = 0
        /\ \A i \in 1 .. m-1 : g[i] = g[i-1] + granted[queue[i]]
    <3>1. \A k \in 0 .. Len(queue) : \A h : RunningSum(h, queue, granted, k) =>
             /\ h \in [0 .. k -> Nat]
             /\ h[0] = 0
             /\ \A i \in 1 .. k : h[i] = h[i-1] + granted[queue[i]]
      BY RunningSumType
    <3> QED BY <2>1, <2>2, <3>1
  <2> DEFINE s == [i \in 0 .. m |-> IF i = m THEN g[m-1] + granted[queue[m]] ELSE g[i]]
  <2>4. ASSUME NEW i \in 0 .. m
        PROVE  s[i] = (IF i = 0 THEN 0 ELSE s[i-1] + granted[queue[i]])
    BY <2>0, <2>3
  <2>5. RunningSum(s, queue, granted, m)
    BY <2>4 DEF RunningSum
  <2> QED BY <2>5, <1>2
<1> QED BY <1>3, <1>4

\* TicketCount is the running sum of the tickets along the queue: its
\* recursive definition has a solution.
LEMMA TicketCountDef ==
  ASSUME NEW queue \in Seq(Task), NEW granted \in [Task -> Nat]
  PROVE  LET cnt == TicketCount(queue, granted)
         IN  /\ cnt \in [0 .. Len(queue) -> Nat]
             /\ cnt[0] = 0
             /\ \A i \in 1 .. Len(queue) : cnt[i] = cnt[i-1] + granted[queue[i]]
<1>1. Len(queue) \in 0 .. Len(queue)
  OBVIOUS
<1>2. \E s : RunningSum(s, queue, granted, Len(queue))
  BY <1>1, RunningSumExists
<1>3. RunningSum(TicketCount(queue, granted), queue, granted, Len(queue))
  BY <1>2 DEF RunningSum, TicketCount
<1> QED BY <1>1, <1>3, RunningSumType

\* Two running sums with the same summands are equal.
LEMMA SumsAgree ==
  ASSUME NEW n \in Nat, NEW f \in [0 .. n -> Nat], NEW g \in [0 .. n -> Nat],
         f[0] = g[0],
         \A i \in 1 .. n : f[i] - f[i-1] = g[i] - g[i-1]
  PROVE  \A i \in 0 .. n : f[i] = g[i]
<1> DEFINE Bad == {i \in 0 .. n : f[i] # g[i]}
<1> SUFFICES ASSUME Bad # {} PROVE FALSE
  OBVIOUS
<1>1. Bad \in SUBSET Nat
  OBVIOUS
<1>2. PICK m \in Bad : \A k \in Bad : m <= k
  BY <1>1, LeastElement
<1>3. m \in 1 .. n
  BY <1>2
<1>4. m - 1 \in 0 .. n /\ ~ (m <= m - 1)
  BY <1>3
<1>5. f[m-1] = g[m-1]
  BY <1>2, <1>4
<1>6. f[m] = g[m]
  <2>1. f[m] - f[m-1] = g[m] - g[m-1] /\ m \in 0 .. n
    BY <1>3
  <2>2. f[m] \in Nat /\ g[m] \in Nat /\ f[m-1] \in Nat /\ g[m-1] \in Nat
    BY <2>1, <1>4
  <2> QED BY <2>1, <2>2, <1>5
<1> QED BY <1>2, <1>6

\* What list_del leaves of the list.
LEMMA RemoveAtProperties ==
  ASSUME NEW queue \in Seq(Task), NEW k \in 1 .. Len(queue)
  PROVE  /\ RemoveAt(queue, k) \in Seq(Task)
         /\ Len(RemoveAt(queue, k)) = Len(queue) - 1
         /\ \A i \in 1 .. Len(queue) - 1 :
               RemoveAt(queue, k)[i] = IF i < k THEN queue[i] ELSE queue[i+1]
<1> DEFINE a == SubSeq(queue, 1, k-1)
           b == SubSeq(queue, k+1, Len(queue))
<1>1. a \in Seq(Task) /\ Len(a) = k - 1 /\ \A i \in 1 .. k-1 : a[i] = queue[i]
  OBVIOUS
<1>2. b \in Seq(Task) /\ Len(b) = Len(queue) - k
      /\ \A i \in 1 .. Len(queue) - k : b[i] = queue[k+i]
  OBVIOUS
<1> HIDE DEF a, b
<1>3. /\ a \o b \in Seq(Task)
      /\ Len(a \o b) = Len(queue) - 1
      /\ \A i \in 1 .. Len(queue) - 1 :
               (a \o b)[i] = IF i < k THEN queue[i] ELSE queue[i+1]
  <2>1. a \o b \in Seq(Task) /\ Len(a \o b) = Len(a) + Len(b)
    BY <1>1, <1>2, ConcatProperties
  <2>2. \A i \in 1 .. Len(a) + Len(b) : (a \o b)[i] = IF i <= Len(a) THEN a[i] ELSE b[i - Len(a)]
    BY <1>1, <1>2, ConcatProperties
  <2>3. ASSUME NEW i \in 1 .. Len(queue) - 1
        PROVE  (a \o b)[i] = IF i < k THEN queue[i] ELSE queue[i+1]
    <3>1. CASE i < k
      BY <3>1, <2>2, <1>1, <1>2
    <3>2. CASE i >= k
      <4>1. i - (k-1) \in 1 .. Len(queue) - k /\ k + (i - (k-1)) = i + 1
        BY <3>2
      <4>2. (a \o b)[i] = b[i - (k-1)]
        BY <3>2, <2>2, <1>1, <1>2
      <4> QED BY <4>1, <4>2, <3>2, <1>2
    <3>3. i < k \/ i >= k
      OBVIOUS
    <3> QED BY <3>1, <3>2, <3>3, Zenon
  <2>4. Len(a) + Len(b) = Len(queue) - 1
    BY <1>1, <1>2
  <2> QED BY <2>1, <2>3, <2>4
<1> QED BY <1>3 DEF RemoveAt, a, b

\* Enqueueing adds the task's tickets to the sum over the queue.
LEMMA CountAppend ==
  ASSUME NEW queue \in Seq(Task), NEW granted \in [Task -> Nat], NEW p \in Task
  PROVE  TicketCount(Append(queue, p), granted)[Len(queue) + 1] =
         TicketCount(queue, granted)[Len(queue)] + granted[p]
<1> DEFINE N == Len(queue)
           longer == Append(queue, p)
           f == TicketCount(queue, granted)
           g == TicketCount(longer, granted)
           h == [i \in 0 .. N |-> g[i]]
<1>1. longer \in Seq(Task) /\ Len(longer) = N + 1 /\ longer[N+1] = p
      /\ N \in Nat /\ \A i \in 1 .. N : longer[i] = queue[i] /\ queue[i] \in Task
  OBVIOUS
<1>2. /\ f \in [0 .. N -> Nat] /\ f[0] = 0
      /\ \A i \in 1 .. N : f[i] = f[i-1] + granted[queue[i]]
  BY TicketCountDef
<1>3. /\ g \in [0 .. N+1 -> Nat] /\ g[0] = 0
      /\ \A i \in 1 .. N+1 : g[i] = g[i-1] + granted[longer[i]]
  BY <1>1, TicketCountDef
<1> HIDE DEF f, g, longer, N
<1>4. h \in [0 .. N -> Nat] /\ h[0] = f[0]
  BY <1>1, <1>2, <1>3
<1>5. ASSUME NEW i \in 1 .. N PROVE h[i] - h[i-1] = f[i] - f[i-1]
  <2>1. i \in 0 .. N /\ i - 1 \in 0 .. N /\ i \in 1 .. N+1
    BY <1>1
  <2>2. h[i] = h[i-1] + granted[queue[i]] /\ f[i] = f[i-1] + granted[queue[i]]
    BY <1>1, <1>2, <1>3, <2>1
  <2>3. h[i-1] \in Nat /\ f[i-1] \in Nat /\ granted[queue[i]] \in Nat
    BY <1>1, <1>2, <1>4, <2>1
  <2> QED BY <2>2, <2>3
<1>6. h[N] = f[N]
  <2>1. \A i \in 0 .. N : h[i] = f[i]
    <3> HIDE DEF h
    <3> QED BY <1>1, <1>2, <1>4, <1>5, SumsAgree
  <2> QED BY <2>1, <1>1
<1>7. g[N+1] = g[N] + granted[longer[N+1]] /\ h[N] = g[N]
  BY <1>1, <1>3
<1>8. g[N+1] = f[N] + granted[p]
  BY <1>1, <1>6, <1>7
<1> QED BY <1>8 DEF f, g, longer, N

\* f[i] is the sum of the first i of the n summands w.
Sums(f, w, n) ==
    /\ w \in [1 .. n -> Nat]
    /\ f \in [0 .. n -> Nat]
    /\ f[0] = 0
    /\ \A i \in 1 .. n : f[i] = f[i-1] + w[i]

\* v is w without its summand number k.
Dropped(v, w, k, n) ==
    /\ \A i \in 1 .. n-1 : i < k => v[i] = w[i]
    /\ \A i \in 1 .. n-1 : i >= k => v[i] = w[i+1]

\* Leaving one summand out of a running sum lowers the total by that summand.
LEMMA SumsWithout ==
  ASSUME NEW n \in Nat, NEW k \in 1 .. n, NEW w, NEW v, NEW f, NEW g,
         Sums(f, w, n), Sums(g, v, n-1), Dropped(v, w, k, n)
  PROVE  g[n-1] = f[n] - w[k]
<1> DEFINE h == [i \in 0 .. n |-> IF i < k THEN g[i] ELSE g[i-1] + w[k]]
<1>w. w \in [1 .. n -> Nat] /\ w[k] \in Nat
  BY DEF Sums
<1>f. f \in [0 .. n -> Nat] /\ f[0] = 0
  BY DEF Sums
<1>g. g \in [0 .. n-1 -> Nat] /\ g[0] = 0
  BY DEF Sums
<1>1. \A i \in 0 .. n : i < k => h[i] = g[i] /\ g[i] \in Nat
  BY <1>g
<1>2. \A i \in 0 .. n : i >= k => h[i] = g[i-1] + w[k] /\ g[i-1] \in Nat
  BY <1>g
<1>3. h \in [0 .. n -> Nat]
  BY <1>g, <1>w
<1> HIDE DEF h
<1>4. ASSUME NEW i \in 1 .. n
      PROVE  h[i] - h[i-1] = f[i] - f[i-1]
  <2>0. f[i] = f[i-1] + w[i]
    BY DEF Sums
  <2>1. f[i-1] \in Nat /\ w[i] \in Nat /\ i \in 0 .. n /\ i-1 \in 0 .. n
    BY <1>f, <1>w
  <2>2. CASE i < k
    <3>1. i \in 1 .. n-1
      BY <2>2
    <3>2. g[i] = g[i-1] + v[i] /\ v[i] = w[i]
      BY <3>1, <2>2 DEF Sums, Dropped
    <3>3. h[i] = g[i] /\ h[i-1] = g[i-1] /\ g[i-1] \in Nat
      BY <2>1, <2>2, <1>1
    <3> QED BY <3>2, <3>3, <2>0, <2>1
  <2>3. CASE i = k
    <3>1. h[i] = g[i-1] + w[k] /\ h[i-1] = g[i-1] /\ g[i-1] \in Nat
      BY <2>1, <2>3, <1>1, <1>2
    <3> QED BY <3>1, <2>0, <2>1, <2>3
  <2>4. CASE i > k
    <3>1. i-1 \in 1 .. n-1 /\ i-1 >= k /\ (i-1)+1 = i
      BY <2>4
    <3>2. g[i-1] = g[(i-1)-1] + v[i-1] /\ v[i-1] = w[(i-1)+1]
      BY <3>1 DEF Sums, Dropped
    <3>3. h[i] = g[i-1] + w[k] /\ h[i-1] = g[(i-1)-1] + w[k] /\ g[(i-1)-1] \in Nat
      BY <2>1, <2>4, <1>2
    <3>4. g[i-1] = g[(i-1)-1] + w[i]
      BY <3>1, <3>2
    <3>5. g[i-1] \in Nat
      BY <3>1, <1>g
    <3>6. h[i] - h[i-1] = w[i]
      <4>1. ASSUME NEW x \in Nat, NEW y \in Nat, NEW z \in Nat
            PROVE  ((x + y) + z) - (x + z) = y
        OBVIOUS
      <4>2. h[i] = (g[(i-1)-1] + w[i]) + w[k]
        BY <3>3, <3>4
      <4> QED BY <4>1, <4>2, <3>3, <2>1, <1>w
    <3>7. f[i] - f[i-1] = w[i]
      BY <2>0, <2>1
    <3> QED BY <3>6, <3>7
  <2> QED BY <2>2, <2>3, <2>4
<1>5. h[0] = f[0]
  BY <1>1, <1>f, <1>g
<1>6. \A i \in 0 .. n : h[i] = f[i]
  BY <1>3, <1>f, <1>4, <1>5, SumsAgree
<1>7. h[n] = g[n-1] + w[k] /\ g[n-1] \in Nat
  BY <1>2
<1>8. h[n] = f[n]
  BY <1>6
<1> QED BY <1>7, <1>8, <1>w

\* Dequeueing takes the task's tickets away from the sum over the queue.
LEMMA CountRemove ==
  ASSUME NEW queue \in Seq(Task), NEW granted \in [Task -> Nat], NEW k \in 1 .. Len(queue)
  PROVE  TicketCount(RemoveAt(queue, k), granted)[Len(queue) - 1] =
         TicketCount(queue, granted)[Len(queue)] - granted[queue[k]]
<1> DEFINE N == Len(queue)
           shorter == RemoveAt(queue, k)
           f == TicketCount(queue, granted)
           g == TicketCount(shorter, granted)
           w == [i \in 1 .. N |-> granted[queue[i]]]
           v == [i \in 1 .. N-1 |-> granted[shorter[i]]]
<1>1. /\ shorter \in Seq(Task) /\ Len(shorter) = N - 1
      /\ \A i \in 1 .. N-1 : shorter[i] = IF i < k THEN queue[i] ELSE queue[i+1]
  BY RemoveAtProperties
<1>2. N \in Nat /\ k \in 1 .. N /\ w \in [1 .. N -> Nat] /\ w[k] = granted[queue[k]]
  OBVIOUS
<1>3. v \in [1 .. N-1 -> Nat]
  <2>1. \A i \in 1 .. N-1 : shorter[i] \in Task
    BY <1>1
  <2> QED BY <2>1
<1>4. Dropped(v, w, k, N)
  <2>1. ASSUME NEW i \in 1 .. N-1, i < k PROVE v[i] = w[i]
    <3>1. i \in 1 .. N /\ shorter[i] = queue[i]
      BY <2>1, <1>1
    <3> QED BY <3>1
  <2>2. ASSUME NEW i \in 1 .. N-1, i >= k PROVE v[i] = w[i+1]
    <3>1. i+1 \in 1 .. N /\ shorter[i] = queue[i+1]
      BY <2>2, <1>1
    <3> QED BY <3>1
  <2> HIDE DEF v, w, N
  <2> QED BY <2>1, <2>2 DEF Dropped
<1>5. Sums(f, w, N)
  BY <1>2, TicketCountDef DEF Sums
<1>6. Sums(g, v, N-1)
  BY <1>1, <1>3, TicketCountDef DEF Sums
<1>7. g[N-1] = f[N] - w[k]
  <2> HIDE DEF f, g, w, v, N, shorter
  <2> QED BY <1>2, <1>3, <1>4, <1>5, <1>6, SumsWithout
<1> QED BY <1>2, <1>7

\* The sum over the queue depends only on the tickets of linked tasks.
LEMMA CountSame ==
  ASSUME NEW queue \in Seq(Task), NEW t1 \in [Task -> Nat], NEW t2 \in [Task -> Nat],
         \A i \in 1 .. Len(queue) : t1[queue[i]] = t2[queue[i]]
  PROVE  TicketCount(queue, t1)[Len(queue)] = TicketCount(queue, t2)[Len(queue)]
<1> DEFINE f == TicketCount(queue, t1)
           g == TicketCount(queue, t2)
<1>1. /\ f \in [0 .. Len(queue) -> Nat] /\ f[0] = 0
      /\ \A i \in 1 .. Len(queue) : f[i] = f[i-1] + t1[queue[i]]
  BY TicketCountDef
<1>2. /\ g \in [0 .. Len(queue) -> Nat] /\ g[0] = 0
      /\ \A i \in 1 .. Len(queue) : g[i] = g[i-1] + t2[queue[i]]
  BY TicketCountDef
<1> HIDE DEF f, g
<1>t. f \in [0 .. Len(queue) -> Nat] /\ g \in [0 .. Len(queue) -> Nat]
      /\ \A i \in 1 .. Len(queue) : t1[queue[i]] \in Nat
  BY <1>1, <1>2
<1>3. ASSUME NEW i \in 1 .. Len(queue) PROVE f[i] - f[i-1] = g[i] - g[i-1]
  <2>1. f[i] = f[i-1] + t1[queue[i]] /\ g[i] = g[i-1] + t1[queue[i]]
    BY <1>1, <1>2
  <2>2. f[i-1] \in Nat /\ g[i-1] \in Nat /\ t1[queue[i]] \in Nat
    <3>1. i-1 \in 0 .. Len(queue)
      OBVIOUS
    <3>2. f[i-1] \in Nat /\ g[i-1] \in Nat
      BY <3>1, <1>t
    <3>3. t1[queue[i]] \in Nat
      BY <1>t
    <3> QED BY <3>2, <3>3
  <2> QED BY <2>1, <2>2
<1>4. Len(queue) \in Nat /\ f[0] = g[0]
  BY <1>1, <1>2
<1>5. \A i \in 0 .. Len(queue) : f[i] = g[i]
  BY <1>1, <1>2, <1>3, <1>4, SumsAgree
<1> QED BY <1>4, <1>5 DEF f, g

\* Entries that hold at most max tickets each hold at most i * max together.
LEMMA CountBound ==
  ASSUME NEW queue \in Seq(Task), NEW granted \in [Task -> Nat], NEW max \in Nat,
         \A i \in 1 .. Len(queue) : granted[queue[i]] <= max
  PROVE  \A i \in 0 .. Len(queue) : TicketCount(queue, granted)[i] <= i * max
<1> DEFINE f == TicketCount(queue, granted)
           Bad == {i \in 0 .. Len(queue) : ~ (f[i] <= i * max)}
<1>1. /\ f \in [0 .. Len(queue) -> Nat] /\ f[0] = 0
      /\ \A i \in 1 .. Len(queue) : f[i] = f[i-1] + granted[queue[i]]
  BY TicketCountDef
<1>2. \A i \in 1 .. Len(queue) : queue[i] \in Task /\ granted[queue[i]] \in Nat
  OBVIOUS
<1> HIDE DEF f
<1>t. f \in [0 .. Len(queue) -> Nat]
  BY <1>1
<1> SUFFICES ASSUME Bad # {} PROVE FALSE
  BY DEF f
<1>3. Bad \in SUBSET Nat
  OBVIOUS
<1>4. PICK m \in Bad : \A n \in Bad : m <= n
  BY <1>3, LeastElement
<1>5. m \in 1 .. Len(queue)
  <2>1. f[0] <= 0 * max
    BY <1>1
  <2>2. m # 0
    BY <1>4, <2>1
  <2> QED BY <1>4, <2>2
<1>6. m-1 \in 0 .. Len(queue) /\ ~ (m <= m-1)
  BY <1>5
<1>7. f[m-1] <= (m-1) * max
  BY <1>4, <1>6
<1>8. f[m] = f[m-1] + granted[queue[m]] /\ granted[queue[m]] <= max
  BY <1>1, <1>5
<1>9. f[m] <= m * max
  <2>1. f[m-1] \in Nat /\ granted[queue[m]] \in Nat /\ m \in Nat
    <3>1. f[m-1] \in Nat BY <1>t, <1>6
    <3>2. granted[queue[m]] \in Nat BY <1>2, <1>5
    <3>3. m \in Nat BY <1>5
    <3> QED BY <3>1, <3>2, <3>3
  <2>2. (m-1) * max + max = m * max /\ (m-1) * max \in Nat
    BY <1>5
  <2> QED BY <1>7, <1>8, <2>1, <2>2
<1> QED BY <1>4, <1>9

\* A running sum of tickets grows along the queue.
LEMMA CountMonotone ==
  ASSUME NEW queue \in Seq(Task), NEW granted \in [Task -> Nat],
         NEW i \in 0 .. Len(queue), NEW j \in 0 .. Len(queue), i <= j
  PROVE  TicketCount(queue, granted)[i] <= TicketCount(queue, granted)[j]
<1> DEFINE f == TicketCount(queue, granted)
           Bad == {m \in i .. Len(queue) : ~ (f[i] <= f[m])}
<1>1. /\ f \in [0 .. Len(queue) -> Nat]
      /\ \A m \in 1 .. Len(queue) : f[m] = f[m-1] + granted[queue[m]]
  BY TicketCountDef
<1>2. \A m \in 1 .. Len(queue) : queue[m] \in Task /\ granted[queue[m]] \in Nat
  OBVIOUS
<1> HIDE DEF f
<1>t. f \in [0 .. Len(queue) -> Nat]
  BY <1>1
<1> SUFFICES ASSUME Bad # {} PROVE FALSE
  BY DEF f
<1>3. Bad \in SUBSET Nat
  OBVIOUS
<1>4. PICK m \in Bad : \A n \in Bad : m <= n
  BY <1>3, LeastElement
<1>5. m # i
  <2>1. f[i] \in Nat
    BY <1>t
  <2> QED BY <1>4, <2>1
<1>6. m-1 \in i .. Len(queue) /\ ~ (m <= m-1) /\ m \in 1 .. Len(queue)
  BY <1>4, <1>5
<1>7. f[i] <= f[m-1]
  BY <1>4, <1>6
<1>8. f[m] = f[m-1] + granted[queue[m]]
  BY <1>1, <1>6
<1>9. f[i] <= f[m]
  <2>1. granted[queue[m]] \in Nat /\ f[m-1] \in Nat /\ f[i] \in Nat
    <3>1. granted[queue[m]] \in Nat BY <1>2, <1>6
    <3>2. m-1 \in 0 .. Len(queue) BY <1>6
    <3>3. f[m-1] \in Nat BY <1>t, <3>2
    <3>4. f[i] \in Nat BY <1>t
    <3> QED BY <3>1, <3>3, <3>4
  <2> QED BY <1>7, <1>8, <2>1
<1> QED BY <1>4, <1>9

\* Arithmetic modulo 2^32 is exact on values that fit.
LEMMA FitsWord ==
  ASSUME NEW n \in 0 .. Word - 1
  PROVE  n % Word = n
BY WordAssumption

\* A list without duplicates is at most as long as there are tasks.
LEMMA QueueBound ==
  ASSUME NEW queue \in Seq(Task), NoDuplicates(queue), IsFiniteSet(Task)
  PROVE  Len(queue) <= Cardinality(Task) /\ Cardinality(Task) \in Nat
<1>1. queue \in [1 .. Len(queue) -> Task] /\ Len(queue) \in Nat
  OBVIOUS
<1>2. queue \in Injection(1 .. Len(queue), Task)
  BY <1>1 DEF Injection, IsInjective, NoDuplicates
<1>3. Cardinality(1 .. Len(queue)) <= Cardinality(Task)
  BY <1>2, FS_Injection
<1>4. Cardinality(1 .. Len(queue)) = Len(queue)
  <2>1. Cardinality(1 .. Len(queue)) = IF 1 > Len(queue) THEN 0 ELSE Len(queue) - 1 + 1
    BY <1>1, FS_Interval
  <2> QED BY <1>1, <2>1
<1>5. Cardinality(Task) \in Nat
  BY FS_CardinalityType
<1> QED BY <1>3, <1>4, <1>5

\* The walk of pick_next_task_lottery: when every entry has the lottery
\* policy and the sum fits the word, tickets_cnt at entry i is the number of
\* tickets of the entries before it.
LEMMA WalkCounts ==
  ASSUME NEW queue \in Seq(Task), NEW granted \in [Task -> Nat],
         TicketCount(queue, granted)[Len(queue)] < Word
  PROVE  \A i \in 1 .. Len(queue) :
            TicketsBefore(queue, granted, Task)[i] = TicketCount(queue, granted)[i-1]
<1> DEFINE N == Len(queue)
           cnt == TicketCount(queue, granted)
           Step(f, i) == IF i = 1 THEN 0
                         ELSE IF queue[i-1] \in Task
                              THEN (f[i-1] + granted[queue[i-1]]) % Word
                              ELSE f[i-1]
           h == [i \in 1 .. N |-> cnt[i-1]]
           walk == TicketsBefore(queue, granted, Task)
<1>1. cnt \in [0 .. N -> Nat] /\ cnt[0] = 0
  BY TicketCountDef
<1>2. \A i \in 1 .. N : cnt[i] = cnt[i-1] + granted[queue[i]]
  BY TicketCountDef
<1>3. N \in Nat /\ \A i \in 1 .. N : queue[i] \in Task
  OBVIOUS
<1>4. \A i \in 0 .. N : cnt[i] \in 0 .. Word - 1
  <2> SUFFICES ASSUME NEW i \in 0 .. N PROVE cnt[i] \in 0 .. Word - 1
    OBVIOUS
  <2>1. N \in 0 .. N /\ i <= N
    BY <1>3
  <2>2. cnt[i] <= cnt[N]
    BY <2>1, CountMonotone
  <2>3. cnt[i] \in Nat /\ cnt[N] \in Nat /\ cnt[N] < Word
    BY <2>1, <1>1
  <2> QED BY <2>2, <2>3, WordAssumption
<1> HIDE DEF cnt
<1>5. ASSUME NEW i \in 1 .. N, i # 1
      PROVE  (cnt[(i-1)-1] + granted[queue[i-1]]) % Word = cnt[i-1] /\ queue[i-1] \in Task
  <2>1. i-1 \in 1 .. N /\ i-1 \in 0 .. N
    BY <1>5, <1>3
  <2>2. cnt[i-1] = cnt[(i-1)-1] + granted[queue[i-1]] /\ cnt[i-1] \in 0 .. Word - 1
    BY <2>1, <1>2, <1>4
  <2> QED BY <2>1, <2>2, <1>3, FitsWord
<1>6. h = [i \in 1 .. N |-> Step(h, i)]
  <2>1. ASSUME NEW i \in 1 .. N PROVE h[i] = Step(h, i)
    <3>1. CASE i = 1
      BY <3>1, <1>1
    <3>2. CASE i # 1
      <4>1. i-1 \in 1 .. N
        BY <3>2, <1>3
      <4>2. h[i-1] = cnt[(i-1)-1] /\ h[i] = cnt[i-1]
        BY <4>1
      <4> QED BY <3>2, <4>2, <1>5
    <3> QED BY <3>1, <3>2
  <2> QED BY <2>1
<1>7. walk = [i \in 1 .. N |-> Step(walk, i)]
  <2>1. \E f : f = [i \in 1 .. N |-> Step(f, i)]
    BY <1>6
  <2> QED BY <2>1 DEF TicketsBefore
<1> DEFINE Bad == {i \in 1 .. N : walk[i] # cnt[i-1]}
<1> HIDE DEF walk, h
<1>8. \A i \in 1 .. N : walk[i] = Step(walk, i)
  BY <1>7
<1>9. Bad = {}
  <2> SUFFICES ASSUME Bad # {} PROVE FALSE
    OBVIOUS
  <2>1. Bad \in SUBSET Nat
    BY <1>3
  <2>2. PICK m \in Bad : \A n \in Bad : m <= n
    BY <2>1, LeastElement
  <2>3. m # 1
    <3>1. m = 1 => walk[m] = 0 /\ cnt[m-1] = 0
      BY <2>2, <1>1, <1>8
    <3> QED BY <2>2, <3>1
  <2>4. m-1 \in 1 .. N /\ ~ (m <= m-1)
    BY <2>2, <2>3, <1>3
  <2>5. walk[m-1] = cnt[(m-1)-1]
    BY <2>2, <2>4
  <2>6. walk[m] = cnt[m-1]
    BY <2>2, <2>3, <2>5, <1>5, <1>8
  <2> QED BY <2>2, <2>6
<1> QED BY <1>9 DEF cnt, walk

\* Entry i is where the walk breaks exactly when the lucky number is one of
\* its tickets, and every number below the total belongs to one entry.
LEMMA WalkBreaks ==
  ASSUME NEW queue \in Seq(Task), NEW granted \in [Task -> Nat],
         TicketCount(queue, granted)[Len(queue)] < Word,
         NEW lucky \in Nat, lucky < TicketCount(queue, granted)[Len(queue)]
  PROVE  LET cnt == TicketCount(queue, granted)
         IN  \E k \in 1 .. Len(queue) :
                /\ cnt[k-1] <= lucky /\ lucky < cnt[k]
                /\ Hits(queue, granted, Task, lucky) = {k}
                /\ Stop(queue, granted, Task, lucky) = k
<1> DEFINE N == Len(queue)
           cnt == TicketCount(queue, granted)
           S == {i \in 0 .. N : lucky < cnt[i]}
           hits == Hits(queue, granted, Task, lucky)
<1>1. cnt \in [0 .. N -> Nat] /\ cnt[0] = 0
  BY TicketCountDef
<1>2. \A i \in 1 .. N : cnt[i] = cnt[i-1] + granted[queue[i]]
  BY TicketCountDef
<1>3. N \in Nat /\ \A i \in 1 .. N : queue[i] \in Task
  OBVIOUS
<1>4. \A i, j \in 0 .. N : i <= j => cnt[i] <= cnt[j]
  BY CountMonotone
<1>5. \A i \in 1 .. N : TicketsBefore(queue, granted, Task)[i] = cnt[i-1]
  BY WalkCounts
<1>w. Word \in Nat /\ cnt[N] < Word
  BY WordAssumption
<1> HIDE DEF cnt, N
<1>6. \A i \in 1 .. N : i \in hits <=> cnt[i-1] <= lucky /\ lucky < cnt[i]
  <2> SUFFICES ASSUME NEW i \in 1 .. N
               PROVE  i \in hits <=> cnt[i-1] <= lucky /\ lucky < cnt[i]
    OBVIOUS
  <2>1. cnt[i] \in 0 .. Word - 1
    <3>1. i \in 0 .. N /\ N \in 0 .. N /\ i <= N
      BY <1>3
    <3>2. cnt[i] <= cnt[N] /\ cnt[i] \in Nat /\ cnt[N] \in Nat
      BY <3>1, <1>1, <1>4
    <3> QED BY <3>2, <1>w
  <2>2. (cnt[i-1] + granted[queue[i]]) % Word = cnt[i]
    BY <2>1, <1>2, FitsWord
  <2>3. i-1 \in 0 .. N
    BY <1>3
  <2>4. cnt[i-1] \in Nat
    BY <2>3, <1>1
  <2> QED BY <2>2, <2>4, <1>3, <1>5 DEF Hits, N
<1>7. hits \in SUBSET (1 .. N)
  BY DEF Hits, N
<1> HIDE DEF hits
<1>8. S \in SUBSET Nat /\ N \in S
  BY <1>3 DEF N, cnt
<1>9. PICK k \in S : \A n \in S : k <= n
  BY <1>8, LeastElement
<1>10. k \in 1 .. N
  BY <1>1, <1>3, <1>9
<1>11. k-1 \in 0 .. N /\ ~ (k <= k-1)
  BY <1>10, <1>3
<1>12. cnt[k-1] <= lucky /\ lucky < cnt[k]
  <2>1. ~ (lucky < cnt[k-1])
    BY <1>9, <1>11
  <2>2. cnt[k-1] \in Nat
    BY <1>1, <1>11
  <2> QED BY <2>1, <2>2, <1>9
<1>13. ASSUME NEW i \in hits PROVE i = k
  <2>1. i \in 1 .. N /\ cnt[i-1] <= lucky /\ lucky < cnt[i]
    BY <1>6, <1>7
  <2>2. i \in S /\ i \in Int /\ k \in Int /\ k <= i
    BY <2>1, <1>3, <1>9, <1>10
  <2>3. CASE k < i
    <3>1. k \in 0 .. N /\ i-1 \in 0 .. N /\ k <= i-1
      BY <2>1, <2>2, <2>3, <1>3, <1>10
    <3>2. cnt[k] <= cnt[i-1]
      BY <3>1, <1>4
    <3>3. cnt[k] \in Nat /\ cnt[i-1] \in Nat
      BY <3>1, <1>1
    <3> QED BY <2>1, <3>2, <3>3, <1>12
  <2> QED BY <2>2, <2>3
<1>14. hits = {k}
  BY <1>6, <1>10, <1>12, <1>13
<1>15. Min({k}) = k
  BY <1>10, <1>3 DEF Min
<1>16. Stop(queue, granted, Task, lucky) = k
  BY <1>14, <1>15 DEF Stop, hits
<1> QED BY <1>10, <1>12, <1>14, <1>16 DEF cnt, N, hits

-----------------------------------------------------------------------------
(* The class *)

\* A consistent struct ltr_rq: the part of the inductive invariant that the
\* class's own functions preserve.
Consistent(rq, tk) ==
    /\ rq \in ltr_rqType
    /\ NoDuplicates(rq.queue)
    /\ rq.nr_running = Len(rq.queue)
    /\ rq.total_tickets = TicketCount(rq.queue, tk)[Len(rq.queue)]
    /\ \A i \in 1 .. Len(rq.queue) : tk[rq.queue[i]] \in CloneTickets

\* Multiplication by a natural is monotone.
LEMMA TimesMonotone ==
  ASSUME NEW a \in Nat, NEW b \in Nat, NEW c \in Nat, a <= b
  PROVE  a * c <= b * c
<1>1. (b - a) * c >= 0 /\ (b - a) * c \in Int
  <2>1. ASSUME NEW d \in Nat PROVE d * c \in Nat
    OBVIOUS
  <2>2. b - a \in Nat
    OBVIOUS
  <2>3. (b - a) * c \in Nat
    BY <2>1, <2>2
  <2> QED BY <2>3
<1>2. (b - a) * c = b * c - a * c
  OBVIOUS
<1>3. a * c \in Int /\ b * c \in Int
  OBVIOUS
<1> QED BY <1>1, <1>2, <1>3

\* A sum over a list without duplicates fits the word.
LEMMA SumFits ==
  ASSUME NEW queue \in Seq(Task), NEW tk \in [Task -> 0 .. MaxTickets], NoDuplicates(queue)
  PROVE  /\ TicketCount(queue, tk)[Len(queue)] \in 0 .. Word - 1
         /\ Len(queue) \in 0 .. Word - 1
<1>1. MaxTickets \in Nat /\ Word \in Nat /\ tk \in [Task -> Nat] /\ Len(queue) \in Nat
  BY TicketsAssumption, WordAssumption
<1>2. Len(queue) <= Cardinality(Task) /\ Cardinality(Task) \in Nat
  BY QueueBound, TaskAssumption
<1>3. \A i \in 1 .. Len(queue) : tk[queue[i]] <= MaxTickets
  BY <1>1
<1>4. TicketCount(queue, tk)[Len(queue)] <= Len(queue) * MaxTickets
  <2>1. \A i \in 0 .. Len(queue) : TicketCount(queue, tk)[i] <= i * MaxTickets
    BY <1>1, <1>3, CountBound
  <2>2. Len(queue) \in 0 .. Len(queue)
    BY <1>1
  <2> QED BY <2>1, <2>2
<1>5. TicketCount(queue, tk)[Len(queue)] \in Nat
  BY <1>1, TicketCountDef
<1>6. Len(queue) * MaxTickets <= Cardinality(Task) * MaxTickets
  BY <1>1, <1>2, TimesMonotone
<1> QED BY <1>1, <1>2, <1>4, <1>5, <1>6, WidthAssumption

\* enqueue_task_lottery of an unlinked ticket holder keeps the queue
\* consistent and links that task.
LEMMA EnqueueConsistent ==
  ASSUME NEW rq, NEW tk \in [Task -> 0 .. MaxTickets], NEW p \in Task,
         Consistent(rq, tk), ~ Linked(rq, p), tk[p] \in CloneTickets
  PROVE  LET new == enqueue_task_lottery(rq, p, tk)
         IN  /\ Consistent(new, tk)
             /\ Range(new.queue) = Range(rq.queue) \cup {p}
             /\ \A q : Linked(new, q) <=> Linked(rq, q) \/ q = p
<1> DEFINE queue == rq.queue
           longer == Append(queue, p)
           new == enqueue_task_lottery(rq, p, tk)
<1>1. queue \in Seq(Task) /\ NoDuplicates(queue) /\ rq.nr_running = Len(queue)
      /\ rq.total_tickets = TicketCount(queue, tk)[Len(queue)]
      /\ \A i \in 1 .. Len(queue) : tk[queue[i]] \in CloneTickets
  BY DEF Consistent, ltr_rqType
<1>2. tk \in [Task -> Nat]
  BY TicketsAssumption
<1> HIDE DEF queue
<1>3. /\ longer \in Seq(Task) /\ Len(longer) = Len(queue) + 1 /\ longer[Len(queue) + 1] = p
      /\ \A i \in 1 .. Len(queue) : longer[i] = queue[i]
      /\ Len(queue) \in Nat
  BY <1>1
<1> HIDE DEF longer
<1>4. \A i \in 1 .. Len(queue) : queue[i] # p
  BY DEF Linked, queue
<1>5. NoDuplicates(longer)
  <2> SUFFICES ASSUME NEW i \in 1 .. Len(longer), NEW j \in 1 .. Len(longer), longer[i] = longer[j]
               PROVE  i = j
    BY DEF NoDuplicates
  <2>1. (i \in 1 .. Len(queue) \/ i = Len(queue) + 1) /\ (j \in 1 .. Len(queue) \/ j = Len(queue) + 1)
    BY <1>3
  <2>2. CASE i \in 1 .. Len(queue) /\ j \in 1 .. Len(queue)
    BY <2>2, <1>1, <1>3 DEF NoDuplicates
  <2>3. CASE i \in 1 .. Len(queue) /\ j = Len(queue) + 1
    BY <2>3, <1>3, <1>4
  <2>4. CASE i = Len(queue) + 1 /\ j \in 1 .. Len(queue)
    BY <2>4, <1>3, <1>4
  <2> QED BY <2>1, <2>2, <2>3, <2>4
<1>6. TicketCount(longer, tk)[Len(longer)] = TicketCount(queue, tk)[Len(queue)] + tk[p]
  BY <1>1, <1>2, <1>3, CountAppend DEF longer
<1>7. /\ TicketCount(longer, tk)[Len(longer)] \in 0 .. Word - 1
      /\ Len(longer) \in 0 .. Word - 1
  BY <1>3, <1>5, SumFits
<1>8. new = [queue |-> longer, nr_running |-> Len(longer),
             total_tickets |-> TicketCount(longer, tk)[Len(longer)]]
  <2>1. (rq.nr_running + 1) % Word = Len(longer)
    BY <1>1, <1>3, <1>7, FitsWord
  <2>2. (rq.total_tickets + tk[p]) % Word = TicketCount(longer, tk)[Len(longer)]
    BY <1>1, <1>6, <1>7, FitsWord
  <2> QED BY <2>1, <2>2 DEF enqueue_task_lottery, longer, queue
<1>9. \A i \in 1 .. Len(longer) : tk[longer[i]] \in CloneTickets
  <2> SUFFICES ASSUME NEW i \in 1 .. Len(longer) PROVE tk[longer[i]] \in CloneTickets
    OBVIOUS
  <2>1. i \in 1 .. Len(queue) \/ i = Len(queue) + 1
    BY <1>3
  <2> QED BY <2>1, <1>1, <1>3
<1>10. Consistent(new, tk)
  <2> HIDE DEF new
  <2> QED BY <1>3, <1>5, <1>7, <1>8, <1>9 DEF Consistent, ltr_rqType, RandomWord
<1>11. Range(new.queue) = Range(rq.queue) \cup {p}
  <2>1. DOMAIN longer = 1 .. Len(queue) + 1 /\ DOMAIN queue = 1 .. Len(queue)
    BY <1>1, <1>3
  <2>2. Range(longer) = Range(queue) \cup {p}
    BY <2>1, <1>3 DEF Range
  <2> QED BY <1>8, <2>2 DEF queue
<1>12. \A q : Linked(new, q) <=> Linked(rq, q) \/ q = p
  <2> SUFFICES ASSUME NEW q PROVE Linked(new, q) <=> Linked(rq, q) \/ q = p
    OBVIOUS
  <2>1. Linked(new, q) <=> \E i \in 1 .. Len(queue) + 1 : longer[i] = q
    BY <1>3, <1>8 DEF Linked
  <2>2. Linked(rq, q) <=> \E i \in 1 .. Len(queue) : queue[i] = q
    BY DEF Linked, queue
  <2> QED BY <2>1, <2>2, <1>3
<1> QED BY <1>10, <1>11, <1>12

\* dequeue_task_lottery of a linked task keeps the queue consistent and
\* unlinks exactly that task.
LEMMA DequeueConsistent ==
  ASSUME NEW rq, NEW tk \in [Task -> 0 .. MaxTickets], NEW p \in Task,
         Consistent(rq, tk), Linked(rq, p)
  PROVE  LET new == dequeue_task_lottery(rq, p, tk)
         IN  /\ Consistent(new, tk)
             /\ Range(new.queue) = Range(rq.queue) \ {p}
             /\ \A q : Linked(new, q) <=> Linked(rq, q) /\ q # p
<1> DEFINE queue == rq.queue
           N == Len(queue)
           k == Position(queue, p)
           shorter == RemoveAt(queue, k)
           new == dequeue_task_lottery(rq, p, tk)
<1>1. queue \in Seq(Task) /\ NoDuplicates(queue) /\ rq.nr_running = N
      /\ rq.total_tickets = TicketCount(queue, tk)[N]
      /\ \A i \in 1 .. N : tk[queue[i]] \in CloneTickets
  BY DEF Consistent, ltr_rqType
<1>2. tk \in [Task -> Nat]
  BY TicketsAssumption
<1>3. k \in 1 .. N /\ queue[k] = p
  BY DEF Linked, Position
<1>4. N \in Nat
  BY <1>1
<1>5. Linked(rq, p) /\ \A q : Linked(rq, q) <=> \E i \in 1 .. N : queue[i] = q
  BY DEF Linked
<1> HIDE DEF queue, k
<1>6. /\ shorter \in Seq(Task) /\ Len(shorter) = N - 1
      /\ \A i \in 1 .. N-1 : shorter[i] = IF i < k THEN queue[i] ELSE queue[i+1]
  BY <1>1, <1>3, RemoveAtProperties
<1>7. TicketCount(shorter, tk)[N-1] = TicketCount(queue, tk)[N] - tk[p]
  BY <1>1, <1>2, <1>3, CountRemove
<1>8. new = [queue |-> shorter,
             nr_running |-> (N - 1) % Word,
             total_tickets |-> (TicketCount(queue, tk)[N] - tk[p]) % Word]
  BY <1>1 DEF dequeue_task_lottery, queue, k
<1> HIDE DEF shorter, N, new
<1>9. ASSUME NEW i \in 1 .. N-1
      PROVE  \E j \in 1 .. N : j # k /\ shorter[i] = queue[j] /\ j = IF i < k THEN i ELSE i+1
  <2>1. CASE i < k
    BY <2>1, <1>3, <1>4, <1>6
  <2>2. CASE ~ (i < k)
    BY <2>2, <1>3, <1>4, <1>6
  <2> QED BY <2>1, <2>2
<1>10. NoDuplicates(shorter)
  <2> SUFFICES ASSUME NEW i \in 1 .. N-1, NEW j \in 1 .. N-1, shorter[i] = shorter[j]
               PROVE  i = j
    BY <1>6 DEF NoDuplicates
  <2>1. PICK a \in 1 .. N : shorter[i] = queue[a] /\ a = IF i < k THEN i ELSE i+1
    BY <1>9
  <2>2. PICK b \in 1 .. N : shorter[j] = queue[b] /\ b = IF j < k THEN j ELSE j+1
    BY <1>9
  <2>3. a = b
    BY <2>1, <2>2, <1>1 DEF NoDuplicates, N
  <2> QED BY <2>1, <2>2, <2>3, <1>3, <1>4
<1>11. TicketCount(shorter, tk)[N-1] \in 0 .. Word - 1 /\ N-1 \in 0 .. Word - 1
  BY <1>6, <1>10, SumFits
<1>12. new = [queue |-> shorter, nr_running |-> N-1,
              total_tickets |-> TicketCount(shorter, tk)[N-1]]
  BY <1>7, <1>8, <1>11, FitsWord
<1>13. \A i \in 1 .. N-1 : tk[shorter[i]] \in CloneTickets
  BY <1>1, <1>9
<1>14. Consistent(new, tk)
  BY <1>6, <1>10, <1>11, <1>12, <1>13 DEF Consistent, ltr_rqType, RandomWord
<1>15. ASSUME NEW q
       PROVE  (\E i \in 1 .. N-1 : shorter[i] = q) <=> (\E i \in 1 .. N : queue[i] = q) /\ q # p
  <2>1. ASSUME NEW i \in 1 .. N-1, shorter[i] = q
        PROVE  (\E j \in 1 .. N : queue[j] = q) /\ q # p
    <3>1. PICK j \in 1 .. N : j # k /\ shorter[i] = queue[j]
      BY <1>9
    <3>2. queue[j] # queue[k]
      BY <3>1, <1>1, <1>3 DEF NoDuplicates, N
    <3> QED BY <3>1, <3>2, <2>1, <1>3
  <2>2. ASSUME NEW j \in 1 .. N, queue[j] = q, q # p
        PROVE  \E i \in 1 .. N-1 : shorter[i] = q
    <3>1. j # k
      BY <2>2, <1>3
    <3>2. CASE j < k
      <4>1. j \in 1 .. N-1 /\ shorter[j] = queue[j]
        BY <3>2, <1>3, <1>4, <1>6
      <4> QED BY <4>1, <2>2
    <3>3. CASE j > k
      <4>1. j-1 \in 1 .. N-1 /\ ~ (j-1 < k) /\ (j-1)+1 = j
        BY <3>3, <1>3, <1>4
      <4>2. shorter[j-1] = queue[j]
        BY <4>1, <1>6
      <4> QED BY <4>1, <4>2, <2>2
    <3> QED BY <3>1, <3>2, <3>3, <1>3, <1>4
  <2> QED BY <2>1, <2>2
<1>16. \A q : Linked(new, q) <=> Linked(rq, q) /\ q # p
  <2>1. \A q : Linked(new, q) <=> \E i \in 1 .. N-1 : shorter[i] = q
    BY <1>6, <1>12 DEF Linked
  <2> QED BY <2>1, <1>5, <1>15
<1>17. Range(new.queue) = Range(rq.queue) \ {p}
  <2>1. DOMAIN shorter = 1 .. N-1 /\ DOMAIN queue = 1 .. N
    BY <1>1, <1>6 DEF N
  <2>2. \A q : q \in Range(shorter) <=> \E i \in 1 .. N-1 : shorter[i] = q
    BY <2>1 DEF Range
  <2>3. \A q : q \in Range(queue) <=> \E i \in 1 .. N : queue[i] = q
    BY <2>1 DEF Range
  <2>4. Range(shorter) = Range(queue) \ {p}
    BY <2>2, <2>3, <1>15
  <2> QED BY <2>4, <1>12 DEF queue
<1> QED BY <1>14, <1>16, <1>17 DEF new

\* A draw from a consistent queue: NULL exactly when nobody is linked, and
\* otherwise a linked task.
LEMMA PickLinked ==
  ASSUME NEW rq, NEW tk \in [Task -> 0 .. MaxTickets], NEW random \in RandomWord,
         Consistent(rq, tk)
  PROVE  LET next == pick_next_task_lottery(rq, tk, Task, random)
         IN  IF rq.queue = <<>> THEN next = NULL
             ELSE next \in Range(rq.queue) /\ next \in Task /\ Linked(rq, next)
<1> DEFINE queue == rq.queue
           lucky == random % rq.total_tickets
           hits == Hits(queue, tk, Task, lucky)
           k == Stop(queue, tk, Task, lucky)
<1>1. CASE queue = <<>>
  BY <1>1 DEF pick_next_task_lottery
<1>2. CASE queue # <<>>
  <2>1. queue \in Seq(Task) /\ Len(queue) \in Nat /\ Len(queue) # 0
        /\ rq.total_tickets = TicketCount(queue, tk)[Len(queue)]
        /\ \A i \in 1 .. Len(queue) : tk[queue[i]] \in CloneTickets
    BY <1>2 DEF Consistent, ltr_rqType
  <2>2. rq.total_tickets # 0
    <3> DEFINE cnt == TicketCount(queue, tk)
    <3>1. tk \in [Task -> Nat]
      BY TicketsAssumption
    <3>2. cnt \in [0 .. Len(queue) -> Nat]
          /\ cnt[Len(queue)] = cnt[Len(queue) - 1] + tk[queue[Len(queue)]]
      <4>1. Len(queue) \in 1 .. Len(queue)
        BY <2>1
      <4> QED BY <2>1, <3>1, <4>1, TicketCountDef
    <3> HIDE DEF cnt
    <3>3. cnt[Len(queue) - 1] \in Nat
      <4>1. Len(queue) - 1 \in 0 .. Len(queue)
        BY <2>1
      <4>2. cnt \in [0 .. Len(queue) -> Nat]
        BY <3>2
      <4> QED BY <4>1, <4>2
    <3>4. tk[queue[Len(queue)]] \in Nat /\ tk[queue[Len(queue)]] > 0
      BY <2>1, TicketsAssumption
    <3> QED BY <3>2, <3>3, <3>4, <2>1 DEF cnt
  <2>3. k \in 1 .. Len(queue)
    <3>1. hits \in SUBSET (1 .. Len(queue))
      BY DEF Hits
    <3> HIDE DEF hits
    <3>2. CASE hits = {}
      BY <2>1, <3>2 DEF Stop, hits
    <3>3. CASE hits # {}
      <4>1. hits \in SUBSET Nat
        BY <3>1, <2>1
      <4>2. \E m \in hits : \A n \in hits : m <= n
        BY <3>3, <4>1, LeastElement
      <4>3. Min(hits) \in hits
        BY <4>2 DEF Min
      <4> QED BY <3>1, <3>3, <4>3 DEF Stop, hits
    <3> QED BY <3>2, <3>3
  <2>4. pick_next_task_lottery(rq, tk, Task, random) = queue[k]
    BY <1>2, <2>2 DEF pick_next_task_lottery
  <2> HIDE DEF k, queue
  <2>5. queue[k] \in Range(queue) /\ queue[k] \in Task /\ Linked(rq, queue[k])
    BY <2>1, <2>3 DEF Range, Linked, queue
  <2> QED BY <1>2, <2>4, <2>5 DEF queue
<1> QED BY <1>1, <1>2

-----------------------------------------------------------------------------
(***************************************************************************)
(* The inductive invariant.  The accounting alone is not inductive: that a *)
(* decrement does not wrap needs the task to be linked (CurrLinked), that  *)
(* an increment does not wrap needs LinkedOnce, and that a draw is not     *)
(* refused for lack of tickets needs HoldersOnly.                          *)
(***************************************************************************)
IInv == TypeOK /\ LinkedOnce /\ Accounting /\ HoldersOnly /\ CurrLinked

\* The invariant in terms of a consistent queue.
LEMMA IInvConsistent ==
  IInv <=> /\ Consistent(ltr, tickets)
           /\ tickets \in [Task -> 0 .. MaxTickets]
           /\ curr \in Task \cup {NULL}
           /\ need_resched \in BOOLEAN
           /\ CurrLinked
BY DEF IInv, TypeOK, LinkedOnce, Accounting, HoldersOnly, Consistent

\* The same for the state after a step.
LEMMA IInvConsistentPrime ==
  IInv' <=> /\ Consistent(ltr', tickets')
            /\ tickets' \in [Task -> 0 .. MaxTickets]
            /\ curr' \in Task \cup {NULL}
            /\ need_resched' \in BOOLEAN
            /\ (curr' # NULL => Linked(ltr', curr'))
BY DEF IInv, TypeOK, LinkedOnce, Accounting, HoldersOnly, Consistent, CurrLinked

\* init_ltr_rq sets up a consistent, empty queue.
LEMMA InitConsistent == Init => IInv
<1> SUFFICES ASSUME Init PROVE IInv
  OBVIOUS
<1>1. ltr = [queue |-> <<>>, nr_running |-> 0, total_tickets |-> 0]
      /\ tickets \in [Task -> {0} \cup CloneTickets] /\ curr = NULL /\ need_resched = FALSE
  BY DEF Init, init_ltr_rq
<1>2. tickets \in [Task -> 0 .. MaxTickets] /\ tickets \in [Task -> Nat]
  <2>1. {0} \cup CloneTickets \subseteq 0 .. MaxTickets /\ 0 .. MaxTickets \subseteq Nat
    BY TicketsAssumption
  <2>2. tickets \in [Task -> {0} \cup CloneTickets]
    BY <1>1
  <2> QED BY <2>1, <2>2
<1>3. <<>> \in Seq(Task) /\ Len(<<>>) = 0 /\ NoDuplicates(<<>>)
  BY DEF NoDuplicates
<1>4. TicketCount(<<>>, tickets)[0] = 0
  BY <1>2, <1>3, TicketCountDef
<1>5. Consistent(ltr, tickets)
  BY <1>1, <1>3, <1>4, WordAssumption DEF Consistent, ltr_rqType, RandomWord
<1> QED BY <1>1, <1>2, <1>5, IInvConsistent DEF CurrLinked

\* Changing the tickets of an unlinked task keeps the queue consistent.
LEMMA RetargetConsistent ==
  ASSUME NEW rq, NEW tk \in [Task -> 0 .. MaxTickets], NEW p \in Task, NEW n \in 0 .. MaxTickets,
         Consistent(rq, tk), ~ Linked(rq, p)
  PROVE  Consistent(rq, [tk EXCEPT ![p] = n])
<1> DEFINE new == [tk EXCEPT ![p] = n]
<1>1. rq.queue \in Seq(Task) /\ Len(rq.queue) \in Nat
  BY DEF Consistent, ltr_rqType
<1>2. tk \in [Task -> Nat] /\ new \in [Task -> Nat]
  BY TicketsAssumption
<1>3. \A i \in 1 .. Len(rq.queue) : rq.queue[i] \in Task /\ new[rq.queue[i]] = tk[rq.queue[i]]
  BY <1>1 DEF Linked
<1> HIDE DEF new
<1>4. TicketCount(rq.queue, new)[Len(rq.queue)] = TicketCount(rq.queue, tk)[Len(rq.queue)]
  BY <1>1, <1>2, <1>3, CountSame
<1>5. Consistent(rq, new)
  BY <1>3, <1>4 DEF Consistent
<1> QED BY <1>5 DEF new

\* Every call into the class preserves the invariant.
LEMMA NextConsistent == IInv /\ [Next]_vars => IInv'
<1> SUFFICES ASSUME IInv, [Next]_vars PROVE IInv'
  OBVIOUS
<1>0. /\ Consistent(ltr, tickets)
      /\ tickets \in [Task -> 0 .. MaxTickets]
      /\ curr \in Task \cup {NULL}
      /\ need_resched \in BOOLEAN
      /\ (curr # NULL => Linked(ltr, curr))
  BY IInvConsistent DEF CurrLinked
<1>1. ASSUME NEW p \in Task, Clone(p) PROVE IInv'
  <2>1. PICK n \in CloneTickets \cup {tickets[q] : q \in Task} : tickets' = [tickets EXCEPT ![p] = n]
    BY <1>1 DEF Clone
  <2>2. n \in 0 .. MaxTickets
    BY <1>0, TicketsAssumption
  <2>3. Consistent(ltr, tickets') /\ tickets' \in [Task -> 0 .. MaxTickets]
    BY <1>0, <1>1, <2>1, <2>2, RetargetConsistent DEF Clone
  <2> QED BY <1>0, <1>1, <2>3, IInvConsistentPrime DEF Clone
<1>2. ASSUME NEW p \in Task, Enqueue(p) PROVE IInv'
  <2>1. Consistent(ltr', tickets) /\ \A q : Linked(ltr, q) => Linked(ltr', q)
    BY <1>0, <1>2, EnqueueConsistent DEF Enqueue
  <2> QED BY <1>0, <1>2, <2>1, IInvConsistentPrime DEF Enqueue
<1>3. ASSUME NEW p \in Task, SwitchTo(p) PROVE IInv'
  <2>1. Consistent(ltr', tickets) /\ Linked(ltr', p) /\ \A q : Linked(ltr, q) => Linked(ltr', q)
    BY <1>0, <1>3, EnqueueConsistent DEF SwitchTo
  <2> QED BY <1>0, <1>3, <2>1, IInvConsistentPrime DEF SwitchTo
<1>4. ASSUME NEW p \in Task, Requeue(p) PROVE IInv'
  <2> DEFINE mid == dequeue_task_lottery(ltr, p, tickets)
  <2>1. Consistent(mid, tickets) /\ \A q : Linked(mid, q) <=> Linked(ltr, q) /\ q # p
    BY <1>0, <1>4, DequeueConsistent DEF Requeue
  <2>2. tickets[p] \in CloneTickets
    BY <1>0, <1>4 DEF Requeue, Linked, Consistent
  <2>3. ltr' = enqueue_task_lottery(mid, p, tickets)
    BY <1>4 DEF Requeue
  <2> HIDE DEF mid
  <2>4. Consistent(ltr', tickets) /\ \A q : Linked(ltr', q) <=> Linked(mid, q) \/ q = p
    BY <1>0, <2>1, <2>2, <2>3, EnqueueConsistent
  <2> QED BY <1>0, <1>4, <2>1, <2>4, IInvConsistentPrime DEF Requeue
<1>5. CASE Tick
  BY <1>0, <1>5, IInvConsistentPrime DEF Tick
<1>6. ASSUME NEW rq, NEW random \in RandomWord, Consistent(rq, tickets), Schedule(rq, random)
      PROVE  IInv'
  <2>1. curr' \in Task \cup {NULL} /\ (curr' # NULL => Linked(rq, curr'))
    BY <1>0, <1>6, PickLinked DEF Schedule
  <2> QED BY <1>0, <1>6, <2>1, IInvConsistentPrime DEF Schedule
<1>7. CASE Block
  <2>1. curr \in Task /\ Linked(ltr, curr)
    BY <1>0, <1>7 DEF Block
  <2>2. Consistent(dequeue_task_lottery(ltr, curr, tickets), tickets)
    BY <1>0, <2>1, DequeueConsistent
  <2> QED BY <1>6, <1>7, <2>2 DEF Block
<1>8. CASE Reschedule
  BY <1>0, <1>6, <1>8 DEF Reschedule
<1>9. CASE OtherClass
  BY <1>0, <1>9, IInvConsistentPrime DEF OtherClass
<1>10. CASE UNCHANGED vars
  BY <1>0, <1>10, IInvConsistentPrime DEF vars
<1> QED BY <1>1, <1>2, <1>3, <1>4, <1>5, <1>7, <1>8, <1>9, <1>10 DEF Next

\* The invariant holds in every reachable state of the class.
THEOREM Invariance == Spec => []IInv
BY InitConsistent, NextConsistent, PTL DEF Spec

\* One more ticket holder still fits both counters of struct ltr_rq.
LEMMA EnqueueFits ==
  ASSUME NEW rq, NEW tk \in [Task -> 0 .. MaxTickets], NEW p \in Task,
         Consistent(rq, tk), ~ Linked(rq, p)
  PROVE  rq.nr_running + 1 < Word /\ rq.total_tickets + tk[p] < Word
<1> DEFINE queue == rq.queue
           longer == Append(queue, p)
<1>1. queue \in Seq(Task) /\ NoDuplicates(queue) /\ rq.nr_running = Len(queue)
      /\ rq.total_tickets = TicketCount(queue, tk)[Len(queue)]
  BY DEF Consistent, ltr_rqType
<1>2. tk \in [Task -> Nat] /\ Word \in Nat
  BY TicketsAssumption, WordAssumption
<1> HIDE DEF queue
<1>3. /\ longer \in Seq(Task) /\ Len(longer) = Len(queue) + 1 /\ longer[Len(queue) + 1] = p
      /\ \A i \in 1 .. Len(queue) : longer[i] = queue[i]
      /\ Len(queue) \in Nat
  BY <1>1
<1>4. \A i \in 1 .. Len(queue) : queue[i] # p
  BY DEF Linked, queue
<1>5. TicketCount(longer, tk)[Len(longer)] = TicketCount(queue, tk)[Len(queue)] + tk[p]
  BY <1>1, <1>2, <1>3, CountAppend
<1> HIDE DEF longer
<1>6. NoDuplicates(longer)
  <2> SUFFICES ASSUME NEW i \in 1 .. Len(longer), NEW j \in 1 .. Len(longer), longer[i] = longer[j]
               PROVE  i = j
    BY DEF NoDuplicates
  <2>1. (i \in 1 .. Len(queue) \/ i = Len(queue) + 1) /\ (j \in 1 .. Len(queue) \/ j = Len(queue) + 1)
    BY <1>3
  <2> QED BY <2>1, <1>1, <1>3, <1>4 DEF NoDuplicates
<1>7. /\ TicketCount(longer, tk)[Len(longer)] \in 0 .. Word - 1
      /\ Len(longer) \in 0 .. Word - 1
  BY <1>3, <1>6, SumFits
<1> QED BY <1>1, <1>2, <1>3, <1>5, <1>7

\* A linked task is part of both counters of struct ltr_rq.
LEMMA DequeueFits ==
  ASSUME NEW rq, NEW tk \in [Task -> 0 .. MaxTickets], NEW p \in Task,
         Consistent(rq, tk), Linked(rq, p)
  PROVE  rq.nr_running >= 1 /\ rq.total_tickets >= tk[p]
<1> DEFINE queue == rq.queue
           N == Len(queue)
           cnt == TicketCount(queue, tk)
<1>1. queue \in Seq(Task) /\ N \in Nat /\ rq.nr_running = N /\ rq.total_tickets = cnt[N]
  BY DEF Consistent, ltr_rqType
<1>2. tk \in [Task -> Nat]
  BY TicketsAssumption
<1>3. PICK k \in 1 .. N : queue[k] = p
  BY DEF Linked
<1>4. cnt \in [0 .. N -> Nat] /\ cnt[k] = cnt[k-1] + tk[p]
  BY <1>1, <1>2, <1>3, TicketCountDef
<1>5. k \in 0 .. N /\ k-1 \in 0 .. N /\ N \in 0 .. N /\ k <= N /\ N >= 1
  BY <1>1
<1>6. cnt[k] <= cnt[N]
  BY <1>1, <1>2, <1>5, CountMonotone
<1> HIDE DEF cnt, N
<1>7. cnt[k] \in Nat /\ cnt[k-1] \in Nat /\ cnt[N] \in Nat /\ tk[p] \in Nat
  BY <1>2, <1>4, <1>5
<1> QED BY <1>1, <1>4, <1>5, <1>6, <1>7

\* Neither counter of struct ltr_rq ever wraps: after any sequence of calls
\* of the class, the next ++ or += of enqueue_task_lottery stays below the
\* word, and the next -- or -= of dequeue_task_lottery stays at zero or above.
THEOREM CountersNeverWrap == Spec => [](TypeOK /\ NoWrap)
<1>1. IInv => TypeOK /\ NoWrap
  <2> SUFFICES ASSUME IInv PROVE TypeOK /\ NoWrap
    OBVIOUS
  <2>1. Consistent(ltr, tickets) /\ tickets \in [Task -> 0 .. MaxTickets]
    BY IInvConsistent
  <2>2. NoWrap
    BY <2>1, EnqueueFits, DequeueFits DEF NoWrap
  <2> QED BY <2>2 DEF IInv
<1> QED BY <1>1, Invariance, PTL

\* nr_running is the length of the list and total_tickets the sum over it,
\* after any sequence of calls of the class.
THEOREM AccountingCorrect == Spec => []Accounting
<1>1. IInv => Accounting
  BY DEF IInv
<1> QED BY <1>1, Invariance, PTL

\* Every draw of pick_next_task_lottery stops at the holder of the lucky
\* ticket; the loop never runs off the end of the list.
THEOREM DrawAlwaysBreaks == Spec => []DrawBreaks
<1>1. IInv => DrawBreaks
  <2> SUFFICES ASSUME IInv, NEW lucky \in 0 .. ltr.total_tickets - 1
               PROVE  Hits(ltr.queue, tickets, Task, lucky) # {}
    BY DEF DrawBreaks
  <2>1. Consistent(ltr, tickets) /\ tickets \in [Task -> 0 .. MaxTickets]
    BY IInvConsistent
  <2>2. ltr.queue \in Seq(Task) /\ NoDuplicates(ltr.queue)
        /\ ltr.total_tickets = TicketCount(ltr.queue, tickets)[Len(ltr.queue)]
    BY <2>1 DEF Consistent, ltr_rqType
  <2>3. tickets \in [Task -> Nat]
    BY <2>1, TicketsAssumption
  <2>4. TicketCount(ltr.queue, tickets)[Len(ltr.queue)] \in 0 .. Word - 1
    BY <2>1, <2>2, SumFits
  <2>5. lucky \in Nat /\ lucky < TicketCount(ltr.queue, tickets)[Len(ltr.queue)]
        /\ TicketCount(ltr.queue, tickets)[Len(ltr.queue)] < Word
    BY <2>2, <2>4, WordAssumption
  <2>6. \E k \in 1 .. Len(ltr.queue) : Hits(ltr.queue, tickets, Task, lucky) = {k}
    <3> DEFINE queue == ltr.queue
               cnt == TicketCount(queue, tickets)
    <3>1. \E k \in 1 .. Len(queue) : /\ cnt[k-1] <= lucky /\ lucky < cnt[k]
                                     /\ Hits(queue, tickets, Task, lucky) = {k}
      <4> HIDE DEF queue
      <4> QED BY <2>2, <2>3, <2>5, WalkBreaks DEF queue
    <3> QED BY <3>1
  <2> QED BY <2>6
<1> QED BY <1>1, Invariance, PTL

\* The lucky numbers with which entry k wins are its own tickets.
LEMMA WinningNumbers ==
  ASSUME NEW rq, NEW tk \in [Task -> 0 .. MaxTickets], Consistent(rq, tk),
         NEW k \in 1 .. Len(rq.queue)
  PROVE  LET cnt == TicketCount(rq.queue, tk)
         IN  {lucky \in 0 .. rq.total_tickets - 1 :
                  pick_next_task_lottery(rq, tk, Task, lucky) = rq.queue[k]}
             = cnt[k-1] .. cnt[k] - 1
<1> DEFINE queue == rq.queue
           N == Len(queue)
           cnt == TicketCount(queue, tk)
<1>1. queue \in Seq(Task) /\ NoDuplicates(queue) /\ N \in Nat /\ queue # <<>>
      /\ rq.total_tickets = cnt[N]
  BY DEF Consistent, ltr_rqType
<1>2. tk \in [Task -> Nat]
  BY TicketsAssumption
<1>3. cnt[N] \in 0 .. Word - 1
  BY <1>1, SumFits
<1>4. cnt \in [0 .. N -> Nat]
  BY <1>1, <1>2, TicketCountDef
<1>5. \A i, j \in 0 .. N : i <= j => cnt[i] <= cnt[j]
  BY <1>1, <1>2, CountMonotone
<1>6. k \in 1 .. N /\ k \in 0 .. N /\ k-1 \in 0 .. N /\ N \in 0 .. N /\ k <= N
  BY <1>1
<1>7. cnt[k] \in Nat /\ cnt[k-1] \in Nat /\ cnt[k] <= cnt[N] /\ cnt[N] \in Nat
  BY <1>4, <1>5, <1>6
<1>8. ASSUME NEW lucky \in 0 .. cnt[N] - 1
      PROVE  pick_next_task_lottery(rq, tk, Task, lucky) = queue[k]
             <=> cnt[k-1] <= lucky /\ lucky < cnt[k]
  <2>1. lucky \in Nat /\ lucky < cnt[N] /\ cnt[N] < Word /\ cnt[N] # 0
    BY <1>3, <1>7, WordAssumption
  <2>2. PICK j \in 1 .. N : /\ cnt[j-1] <= lucky /\ lucky < cnt[j]
                            /\ Stop(queue, tk, Task, lucky) = j
    BY <1>1, <1>2, <2>1, WalkBreaks
  <2>3. lucky % cnt[N] = lucky
    <3>1. ASSUME NEW m \in Nat, NEW n \in Nat, n < m PROVE n % m = n
      BY <3>1
    <3> HIDE DEF cnt, N
    <3> QED BY <2>1, <1>7, <3>1
  <2>4. pick_next_task_lottery(rq, tk, Task, lucky) = queue[j]
    BY <1>1, <2>1, <2>2, <2>3 DEF pick_next_task_lottery
  <2>5. queue[j] = queue[k] <=> j = k
    BY <1>1, <1>6 DEF NoDuplicates
  <2> HIDE DEF cnt, N
  <2>6. ASSUME cnt[k-1] <= lucky, lucky < cnt[k] PROVE j = k
    <3>1. j \in 0 .. N /\ j-1 \in 0 .. N /\ j \in Int /\ k \in Int
      BY <1>1, <1>6
    <3>2. cnt[j] \in Nat /\ cnt[j-1] \in Nat
      BY <1>4, <3>1
    <3>3. CASE j < k
      <4>1. j <= k-1
        BY <3>1, <3>3
      <4>2. cnt[j] <= cnt[k-1]
        BY <4>1, <3>1, <1>5, <1>6
      <4> QED BY <4>2, <2>2, <2>6, <3>2, <1>7, <2>1
    <3>4. CASE k < j
      <4>1. k <= j-1
        BY <3>1, <3>4
      <4>2. cnt[k] <= cnt[j-1]
        BY <4>1, <3>1, <1>5, <1>6
      <4> QED BY <4>2, <2>2, <2>6, <3>2, <1>7, <2>1
    <3> QED BY <3>1, <3>3, <3>4
  <2> QED BY <2>2, <2>4, <2>5, <2>6
<1> HIDE DEF cnt, N
<1>9. {lucky \in 0 .. cnt[N] - 1 : pick_next_task_lottery(rq, tk, Task, lucky) = queue[k]}
      = cnt[k-1] .. cnt[k] - 1
  BY <1>7, <1>8
<1> QED BY <1>1, <1>9 DEF cnt, N

\* pick_next_task_lottery is proportional: each linked task wins with exactly
\* as many lucky numbers as it holds tickets, every other task with none.
THEOREM DrawProportional == Spec => []ProportionalShare
<1>1. IInv => ProportionalShare
  <2> SUFFICES ASSUME IInv, NEW p \in Task
               PROVE  Cardinality({lucky \in 0 .. ltr.total_tickets - 1 :
                          pick_next_task_lottery(ltr, tickets, Task, lucky) = p})
                      = IF Linked(ltr, p) THEN tickets[p] ELSE 0
    BY DEF ProportionalShare
  <2> DEFINE queue == ltr.queue
             cnt == TicketCount(queue, tickets)
             W == {lucky \in 0 .. ltr.total_tickets - 1 :
                      pick_next_task_lottery(ltr, tickets, Task, lucky) = p}
  <2>1. Consistent(ltr, tickets) /\ tickets \in [Task -> 0 .. MaxTickets]
    BY IInvConsistent
  <2>2. queue \in Seq(Task) /\ Len(queue) \in Nat /\ ltr.total_tickets \in 0 .. Word - 1
    BY <2>1 DEF Consistent, ltr_rqType, RandomWord
  <2>3. CASE Linked(ltr, p)
    <3>1. PICK k \in 1 .. Len(queue) : queue[k] = p
      BY <2>3 DEF Linked
    <3>2. W = cnt[k-1] .. cnt[k] - 1
      BY <2>1, <3>1, WinningNumbers
    <3>3. tickets \in [Task -> Nat]
      BY <2>1, TicketsAssumption
    <3>4. cnt \in [0 .. Len(queue) -> Nat] /\ cnt[k] = cnt[k-1] + tickets[p]
      BY <2>2, <3>1, <3>3, TicketCountDef
    <3>5. k \in 0 .. Len(queue) /\ k-1 \in 0 .. Len(queue)
      BY <2>2, <3>1
    <3> HIDE DEF cnt, W
    <3>6. cnt[k] \in Nat /\ cnt[k-1] \in Nat /\ tickets[p] \in Nat
      BY <3>3, <3>4, <3>5
    <3>7. Cardinality(cnt[k-1] .. cnt[k] - 1) =
          IF cnt[k-1] > cnt[k] - 1 THEN 0 ELSE (cnt[k] - 1) - cnt[k-1] + 1
      <4>1. cnt[k-1] \in Int /\ cnt[k] - 1 \in Int
        BY <3>6
      <4>2. ASSUME NEW a \in Int, NEW b \in Int
            PROVE  Cardinality(a .. b) = IF a > b THEN 0 ELSE b - a + 1
        BY FS_Interval
      <4> QED BY <4>1, <4>2
    <3>8. cnt[k] = cnt[k-1] + tickets[p]
      BY <3>4
    <3>9. Cardinality(W) = tickets[p]
      BY <3>2, <3>6, <3>7, <3>8
    <3> QED BY <2>3, <3>9 DEF W
  <2>4. CASE ~ Linked(ltr, p)
    <3>1. W = {}
      <4> SUFFICES ASSUME NEW lucky \in 0 .. ltr.total_tickets - 1,
                          pick_next_task_lottery(ltr, tickets, Task, lucky) = p
                   PROVE  FALSE
        OBVIOUS
      <4>1. lucky \in RandomWord
        BY <2>2, WordAssumption DEF RandomWord
      <4> QED BY <2>1, <2>4, <4>1, PickLinked, NULLAssumption
    <3>2. Cardinality(W) = 0
      BY <3>1, FS_EmptySet
    <3> QED BY <2>4, <3>2
  <2> QED BY <2>3, <2>4
<1> QED BY <1>1, Invariance, PTL

\* The class implements the abstract lottery: linked tasks are contenders,
\* every draw is won by one of them, and the class keeps the CPU while there
\* is one.
THEOREM Refinement == Spec => ImplementsLottery
<1>1. Init => Abstract!Init
  BY DEF Init, init_ltr_rq, Abstract!Init, Range
<1>2. IInv /\ [Next]_vars => [Abstract!Next]_(Abstract!vars)
  <2> SUFFICES ASSUME IInv, [Next]_vars
               PROVE  Abstract!Next \/ UNCHANGED <<Range(ltr.queue), curr>>
    BY DEF Abstract!vars
  <2>0. /\ Consistent(ltr, tickets) /\ tickets \in [Task -> 0 .. MaxTickets]
        /\ curr \in Task \cup {NULL} /\ (curr # NULL => Linked(ltr, curr))
    BY IInvConsistent DEF CurrLinked
  <2>l. ASSUME NEW rq, NEW p, Consistent(rq, tickets) PROVE Linked(rq, p) <=> p \in Range(rq.queue)
    <3>1. rq.queue \in Seq(Task)
      BY <2>l DEF Consistent, ltr_rqType
    <3> QED BY <3>1 DEF Linked, Range
  <2>1. ASSUME NEW p \in Task, Clone(p) PROVE UNCHANGED <<Range(ltr.queue), curr>>
    BY <2>1 DEF Clone
  <2>2. ASSUME NEW p \in Task, Enqueue(p) \/ SwitchTo(p) PROVE Abstract!Next
    <3>1. Range(ltr'.queue) = Range(ltr.queue) \cup {p}
      BY <2>0, <2>2, EnqueueConsistent DEF Enqueue, SwitchTo
    <3>2. p \notin Range(ltr.queue)
      BY <2>0, <2>2, <2>l DEF Enqueue, SwitchTo
    <3>3. curr' = curr \/ (curr = NULL /\ curr' = p)
      BY <2>2 DEF Enqueue, SwitchTo
    <3> QED BY <3>1, <3>2, <3>3 DEF Abstract!Next, Abstract!Enter
  <2>3. ASSUME NEW p \in Task, Requeue(p) PROVE UNCHANGED <<Range(ltr.queue), curr>>
    <3> DEFINE mid == dequeue_task_lottery(ltr, p, tickets)
    <3>1. Consistent(mid, tickets) /\ Range(mid.queue) = Range(ltr.queue) \ {p} /\ ~ Linked(mid, p)
      BY <2>0, <2>3, DequeueConsistent DEF Requeue
    <3>2. tickets[p] \in CloneTickets /\ p \in Range(ltr.queue)
      BY <2>0, <2>3, <2>l DEF Requeue, Linked, Consistent
    <3>3. ltr' = enqueue_task_lottery(mid, p, tickets) /\ curr' = curr
      BY <2>3 DEF Requeue
    <3> HIDE DEF mid
    <3>4. Range(ltr'.queue) = Range(mid.queue) \cup {p}
      BY <2>0, <3>1, <3>2, <3>3, EnqueueConsistent
    <3> QED BY <3>1, <3>2, <3>3, <3>4
  <2>4. ASSUME NEW rq, NEW random \in RandomWord, Consistent(rq, tickets), Schedule(rq, random),
               \/ Range(rq.queue) = Range(ltr.queue)
               \/ curr # NULL /\ Range(rq.queue) = Range(ltr.queue) \ {curr}
        PROVE  Abstract!Next
    <3>1. ltr' = rq /\ curr' = pick_next_task_lottery(rq, tickets, Task, random)
      BY <2>4 DEF Schedule
    <3>2. rq.queue \in Seq(Task)
      BY <2>4 DEF Consistent, ltr_rqType
    <3>3. IF rq.queue = <<>> THEN curr' = NULL ELSE curr' \in Range(rq.queue)
      BY <2>0, <2>4, <3>1, PickLinked
    <3>4. rq.queue = <<>> <=> Range(rq.queue) = {}
      <4>1. Len(rq.queue) \in Nat /\ DOMAIN rq.queue = 1 .. Len(rq.queue)
            /\ (rq.queue = <<>> <=> Len(rq.queue) = 0)
        BY <3>2
      <4>2. Range(rq.queue) = {} <=> 1 .. Len(rq.queue) = {}
        BY <4>1 DEF Range
      <4>3. 1 .. Len(rq.queue) = {} <=> Len(rq.queue) = 0
        BY <4>1
      <4> QED BY <4>1, <4>2, <4>3
    <3> QED BY <2>4, <3>1, <3>3, <3>4 DEF Abstract!Next, Abstract!Draw
  <2>5. CASE Block
    <3>1. curr \in Task /\ Linked(ltr, curr) /\ curr # NULL
      BY <2>0, <2>5 DEF Block
    <3> DEFINE rq == dequeue_task_lottery(ltr, curr, tickets)
    <3>2. Consistent(rq, tickets) /\ Range(rq.queue) = Range(ltr.queue) \ {curr}
      BY <2>0, <3>1, DequeueConsistent
    <3>3. PICK random \in RandomWord : Schedule(rq, random)
      BY <2>5 DEF Block
    <3> HIDE DEF rq
    <3> QED BY <2>4, <3>1, <3>2, <3>3
  <2>6. CASE Reschedule
    BY <2>0, <2>4, <2>6 DEF Reschedule
  <2>7. CASE Tick \/ OtherClass \/ UNCHANGED vars
    BY <2>7 DEF Tick, OtherClass, vars
  <2> QED BY <2>1, <2>2, <2>3, <2>5, <2>6, <2>7 DEF Next
<1> QED BY <1>1, <1>2, Invariance, PTL DEF Spec, ImplementsLottery, Abstract!Spec
=============================================================================
