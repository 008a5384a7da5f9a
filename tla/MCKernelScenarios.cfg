\* Two processes that block, wake, fork, renice, change policy and exit; or three that fork, change
\* policy in every way there is, and exit.
SPECIFICATION MCSpec
CONSTANTS
    Task = {t1, t2, t3}
    Idle = Idle
    NULL = NULL
    Word = 16
    Nices <- SomeNices
    Requests <- SomeRequests
    Clones = {"clone", "io_thread"}
    Blocking = TRUE
SYMMETRY Symmetry
INVARIANTS QueuesMatchTasks RunnableIsQueued NoLostWakeup ClassFollowsPolicy ListOpsLegal
PROPERTY ImplementsClass
