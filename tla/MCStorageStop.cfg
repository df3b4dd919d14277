SPECIFICATION Spec
CONSTANTS
    r1 = r1
    r2 = r2
    r3 = r3
    h1 = h1
    h2 = h2
    f = f
    g = g
    NoFile = NoFile
    NoRequest = NoRequest
    Requests = {r1, r3}
    Reads <- MCReads
    Faulty = {g}
    MaxCancels = 1
    Destroyed = TRUE
    Priorities = {0, 1}
    MaxChunkSize = 2
    Staging = {1, 2}
    HostWorkers = {h1}
PROPERTY DestructorReturns
CHECK_DEADLOCK FALSE
