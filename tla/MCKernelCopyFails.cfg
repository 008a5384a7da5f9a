\* copy_process fails under kernel_clone.
SPECIFICATION Spec
CONSTANTS
    Task = {t1, t2}
    Idle = Idle
    NULL = NULL
    Word = 16
    Nices = {}
    Requests <- LotteryRequests
    Clones = {"clone"}
    Blocking = FALSE
SYMMETRY Symmetry
INVARIANT CloneChecksCopy
