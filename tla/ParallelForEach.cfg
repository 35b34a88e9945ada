SPECIFICATION FairSpecCalls
CONSTANTS
    thread_count = 2
    x = x
    y = y
    Clients <- MCClients
    Foreign = {y}
    ForeignIndex = 0
    r = r
    c = c
    q = q
    Task <- MCTask
    Submits <- MCSubmits
    Forks <- MCForks
    NoTask = NoTask
    Callers = {x}
    MaxDistance = 5
    ChunkSizes <- MCChunkSizes
    Modulus = 16
INVARIANTS OnePlace NoLostWakeup EachElementOnce
PROPERTIES EveryTaskRuns DestructorReturns CallReturns
CHECK_DEADLOCK FALSE
