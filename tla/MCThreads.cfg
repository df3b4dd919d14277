\* All threads may be gone or wait for themselves: no deadlock check.
CONSTANTS
    Threads = {a, b, c, d}
SPECIFICATION PartsSpec
INVARIANTS OnceSafe LocksSafe
PROPERTIES ImplementsInitOnce CallerReturns ReadersWake KeysCorrect KeyCleanupEnds
CHECK_DEADLOCK FALSE
