\* A lottery task reads its CPU clock.
SPECIFICATION Spec
CONSTANTS
    Task = {t1, t2}
    Idle = Idle
    NULL = NULL
    Word = 16
    Nices = {}
    Requests <- LotteryRequests
    Clones = {}
    Blocking = FALSE
SYMMETRY Symmetry
INVARIANT RuntimeReadable
