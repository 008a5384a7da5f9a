\* Three tasks with unequal grants and a 4-bit word, under the fairness of the draw.
SPECIFICATION FairSpec
CONSTANTS
    Task = {t1, t2, t3}
    NULL = NULL
    Word = 16
    CloneTickets = {1, 2, 3}
    MaxTickets = 3
INVARIANTS TypeOK NoWrap Accounting ProportionalShare
PROPERTIES ImplementsLottery NoStarvation
