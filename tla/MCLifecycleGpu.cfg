CONSTANTS
    a = a
    b = b
    Main = Main
    Slots = {Main, a, b}
    NoSlot = NoSlot
    GcThreshold = 1
    MaxCachedThreads = 1
    MaxTail = 1
    TimedJoins = TRUE
    EarlyCollect = FALSE
SPECIFICATION PartsSpec
SYMMETRY Alike
INVARIANTS SlotsConserved  GarbageIsCollected SleepingJoinerIsTold 
           SleepsOnlyIdle 
