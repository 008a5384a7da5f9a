\* A default is written while a task of a group is counted with a minimum of its own.
SPECIFICATION Spec
CONSTANTS
    Root = Root  g1 = g1  NULL = NULL
    Task = {t1, t2}
    Cpu = {c0}
    Group = {Root, g1}
    Parent <- OneGroup
    Scale = 2
    Buckets = 2
    Values = {1, 2}
    Attrs <- SomeAttrs
    MaxAsked = 1
SYMMETRY Symmetry
INVARIANT ClampsUpToDate
