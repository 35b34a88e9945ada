SPECIFICATION FairSpec
CONSTANTS
    thread_count = 2
    x = x
    y = y
    Clients <- MCClients
    Foreign = {y}
    ForeignIndex = 0
    r = r
    c = c
    q = q
    Task <- MCTask
    Submits <- MCSubmits
    Forks <- MCForks
    NoTask = NoTask
PROPERTIES FireAndForget
CHECK_DEADLOCK FALSE
