\* One core of two hyperthreads, of which c2 goes down and comes back, alone or with suspend; bandwidth
\* of two groups below the root, with 8-bit numbers.
SPECIFICATION MCSpec
CONSTANTS
    c1 = c1  c2 = c2  u1 = u1  k1 = k1  p1 = p1
    CPUs = {c1, c2}
    Boot = c1
    Sibling <- OtherThread
    Tasks = {u1, k1, p1}
    Kind <- KindOf
    Home <- HomeOf
    Cpuset = {c1, c2}
    Pins = {u1}
    Hp = Hp  Stop = Stop  Idle = Idle  None = None
    Root = Root  g1 = g1  g2 = g2
    w1 = w1  w2 = w2
    Writers = {w1, w2}
    NSEC_PER_USEC = 4
    U64_MAX = 255
    BW_SHIFT = 4
    MinPeriod = 8
    MaxPeriod = 16
SYMMETRY Symmetry
INVARIANTS Vacated PushPersists CountersBalanced QuotasFit LimitsAgree
