\* d may be cancelled at any moment.  Threads may all wait forever: no deadlock check.
CONSTANTS
    a = a
    b = b
    d = d
    m1 = m1
    m2 = m2
    c1 = c1
    c2 = c2
    Threads = {a, b, d}
    NoThread = NoThread
    Mutexes = {m1}
    NoMutex = NoMutex
    Conds = {c1}
    NoCond = NoCond
    Recursive = {}
    MaxRecursion = 0
    MaxDeferWaiters = 1
    Cancellable = {d}
    Deadlines = {TRUE}
SPECIFICATION Spec
SYMMETRY TwoAlike
INVARIANTS QueueMatchesWchan WakeIsOwed
CHECK_DEADLOCK FALSE
