\* Two CPUs, two task slots and two mm_structs beside init_mm; two files and two threads that replace
\* the executable.
SPECIFICATION MCSpec
CONSTANTS
    c1 = c1  c2 = c2  i1 = i1  i2 = i2
    CPUs = {c1, c2}
    Idle <- IdleOf
    Slots = {t1, t2}
    First = t1
    MMs = {init_mm, m1, m2}
    init_mm = init_mm  None = None
    Scenarios <- MmScenarios
    f1 = f1  f2 = f2
    Files = {f1, f2}
    Replacers = {r1, r2}
    parent = parent  child = child  fresh = fresh
    FirstFile = f1
INVARIANTS MmStructSafe MemoryExact ExecutableSafe
PROPERTIES ReleaseTellsAll GoneFilesStay
