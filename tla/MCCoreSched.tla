---------------------------- MODULE MCCoreSched -----------------------------
(***************************************************************************)
(* Instances of CoreSched and of UClamp, both about a static key and the   *)
(* run queues it speaks of, for TLC.  The two share no state: a behaviour  *)
(* is one of CoreSched or one of UClamp, and the other module stays in its *)
(* initial state.                                                          *)
(***************************************************************************)
EXTENDS CoreSched, TLC

CONSTANTS Root, g1, \* two task groups
          Task, Cpu, Group, Scale, Buckets, Values, MaxAsked, NULL \* for UClamp

VARIABLES rq, task, tg, default, used, asked, walk,
          clamping \* what happens in a behaviour of UClamp, or "none"

clampVars == <<rq, task, tg, default, used, asked, walk>>

\* Two hyperthreads of one core; every cookie's task is on CPU 0.
OneCore == [c \in CPUs |-> CPUs]
AtZero == [u \in Users |-> 0]

OneGroup == g1 :> Root

\* Requests for SCHED_LOTTERY: with a minimum and SCHED_RESET_ON_FORK; and with SCHED_FLAG_KEEP_PARAMS a
\* minimum, a maximum (refused beside that minimum) and a reset.  -2 is Keep.
Asks(lo, hi, reset, params) == [MIN |-> lo, MAX |-> hi, reset |-> reset, params |-> params]
OwnMinimum == Asks(2, -2, FALSE, FALSE)
SomeAttrs == {Asks(2, -2, TRUE, TRUE), OwnMinimum, Asks(-2, 1, FALSE, FALSE), Asks(-1, -1, FALSE, FALSE)}

U == INSTANCE UClamp WITH Parent <- OneGroup, Attrs <- SomeAttrs

ASSUME U!ScaleAssumption /\ U!GroupAssumption

\* Two tasks in two groups ask for a minimum; one task makes all requests in two groups, and two tasks
\* make them in one.
Allowed ==
    /\ clamping = "minimum" => \A a \in asked : a.attr = OwnMinimum
    /\ clamping = "one task" => Cardinality({p \in Task : task[p].live}) = 1
    /\ clamping = "one group" => ~ tg[g1].online

MCInit == Init /\ U!Init /\ clamping \in {"none", "minimum", "one task", "one group"}
MCNext == \/ clamping = "none" /\ Next /\ UNCHANGED <<clampVars, clamping>>
          \/ clamping # "none" /\ UNCHANGED <<vars, clamping>> /\ U!Next /\ Allowed'
MCSpec == MCInit /\ [][MCNext]_<<vars, clampVars, clamping>>

\* The next-state relation and the properties of UClamp do not tell the tasks apart.
Symmetry == Permutations(Task)

\* What a queue shows of the clamps is what its tasks ask for: U!QueueClamps.
QueueClamps == U!QueueClamps

\* A change of a group, a default or a group of a task has reached its tasks when it is done: U!ClampsFollow.
ClampsFollow == U!ClampsFollow
=============================================================================
