SPECIFICATION Spec
CONSTANTS
    Guests = {g1, g2}
    g1 = g1
    g2 = g2
    Submitters = {g1}
    Watchers = {g2}
    Hdd = Hdd
    AioWork = AioWork
    Batches <- MCBatches
    MaxCommands = 2
INVARIANTS FinishedHasResults CancelReachesStorage WakeMissedOnlyInWindow
PROPERTIES NothingAfterTheEnd RecordFinishes
CHECK_DEADLOCK FALSE
