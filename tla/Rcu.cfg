SPECIFICATION FairSpec
CONSTANTS
    Threads = {t1, t2, t3}
    Domains = {d1}
    NumSlots <- MCSlots
    MaxNest = 1
    MaxObjects = 2
INVARIANTS GracePeriod NoUseAfterFree OneOwner
PROPERTIES UpdateReturns
