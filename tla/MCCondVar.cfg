\* Nobody is cancelled.  Threads may all wait forever: no deadlock check.
CONSTANTS
    a = a
    b = b
    d = d
    m1 = m1
    m2 = m2
    c1 = c1
    c2 = c2
    Threads = {a, d}
    NoThread = NoThread
    Mutexes = {m1, m2}
    NoMutex = NoMutex
    Conds = {c1}
    NoCond = NoCond
    Recursive = {m1}
    MaxRecursion = 1
    MaxDeferWaiters = 1
    Cancellable = {}
    Deadlines = {FALSE, TRUE}
SPECIFICATION FairSpec
INVARIANT DeferredPostsHaveAnOwner
PROPERTIES  SignalledWakes
CHECK_DEADLOCK FALSE
