\* A lottery task is runnable on an idle CPU.
SPECIFICATION FairSpec
CONSTANTS
    Task = {t1, t2}
    Idle = Idle
    NULL = NULL
    Word = 16
    Nices = {}
    Requests <- LotteryRequests
    Clones = {}
    Blocking = TRUE
PROPERTY IdleCpuRunsLottery
