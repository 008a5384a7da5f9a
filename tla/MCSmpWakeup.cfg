\* Two CPUs that share a cache.
SPECIFICATION FairSpec
CONSTANTS
    c1 = c1  c2 = c2  t1 = t1  t2 = t2
    CPUs = {c1, c2}
    Tasks = {t1, t2}
    Idle = Idle  NoTask = NoTask  Free = Free
    Scenarios <- SmpScenarios
    LLC <- OneCache
    TTWU_QUEUE = TRUE
    UINT = 4
INVARIANTS OnePlace SleepersCounted NoLostWakeup
PROPERTIES LockedDown WokenTaskIsQueued
