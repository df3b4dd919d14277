\* All threads may wait without a timeout: no deadlock check.
CONSTANTS
    a = a
    b = b
    c = c
    NoThread = NoThread
    Threads = {a, b, c}
    Prio <- MCPrio
    InitCounts = {0, 3}
    MaxCounts = {0, 2}
    NeedCounts = {1, 2}
    SignalCounts = {1, 2}
    SetCounts <- MCSetCounts
SPECIFICATION PartsSpec
SYMMETRY Alike
INVARIANTS ListSound NoServableWaiter NoMissedEdge TimersStayAlive
PROPERTIES NoOvertaking ImplementsCountingSem TriggeredStays
CHECK_DEADLOCK FALSE
