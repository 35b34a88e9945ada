SPECIFICATION Spec
CONSTANTS
    Threads = {t1, t2}
    Domains = {d1}
    NumSlots <- MCSlots
    MaxNest = 2
    MaxObjects = 2
INVARIANT GracePeriod
