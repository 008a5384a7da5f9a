\* Two CPUs and two callers of set_cpus_allowed_ptr().
SPECIFICATION FairSpec
CONSTANTS
    k1 = k1  k2 = k2
    CPUs = {c1, c2}
    Callers = {k1, k2}
    Scenarios <- AffinityScenarios
    Exec = Exec  None = None  OwnMask = OwnMask
    PREEMPTION = TRUE
INVARIANTS PendingSafe
PROPERTIES PinnedStays CallersReturn
