\* At most three tasks, two of them forking at a time.
SPECIFICATION Spec
CONSTANTS
    s1 = s1  t1 = t1  t2 = t2  t3 = t3
    Tasks = {t1, t2, t3}
    Root = t1  None = None
    Scenarios <- ForkScenarios
    Signals = {s1}
    max_threads = 3
INVARIANTS CountsExact StructOutlivesUsers SignalsReachAll ThreadsAgree
PROPERTY KilledGroupsShrink
