CONSTANTS
    a = a
    b = b
    Main = Main
    Slots = {Main, a, b}
    NoSlot = NoSlot
    GcThreshold = 1
    MaxCachedThreads = 1
    MaxTail = 1
    TimedJoins = FALSE
    EarlyCollect = TRUE
SPECIFICATION Spec
SYMMETRY Alike
INVARIANT TryCollectHoldsLock
