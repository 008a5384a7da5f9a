\* A core of two CPUs that may both go down, a locking path and a cookie; utilization clamps of two
\* tasks and one group on one CPU, with two buckets.
SPECIFICATION MCSpec
CONSTANTS
    CPUs = {0, 1}
    Siblings <- OneCore
    Lockers = {l1}
    Users = {v1}
    Home <- AtZero
    Unplug = {0, 1}
    SeqMod = 2
    Flipper = Flipper  Hp = Hp  None = None
    Root = Root  g1 = g1  NULL = NULL
    Task = {t1, t2}
    Cpu = {c0}
    Group = {Root, g1}
    Scale = 2
    Buckets = 2
    Values = {1, 2}
    MaxAsked = 1
SYMMETRY Symmetry
INVARIANTS LocksTheSame EnabledWhileUsed OneLeader QueueClamps ClampsFollow
