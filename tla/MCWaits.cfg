\* Threads may all wait forever: no deadlock check.
CONSTANTS
    Threads = {a, c}
    NoThread = NoThread
    InitialValue = 0
    MaxValue = 2
    Cancellable = {c}
    MaxStale = 1
    Deadlines = {FALSE, TRUE}
SPECIFICATION PartsSpec
INVARIANT SemSafe
PROPERTIES TokenOrSleeperMoves FlagCorrect FlagDeleteReturns ReadsAnswered
CHECK_DEADLOCK FALSE
