SPECIFICATION Spec
CONSTANTS
    Producers = {p1, p2}
    Consumers = {c1, c2}
    MaxPushes <- MCMaxPushes
    Mixed = TRUE
    NoElement = NoElement
    Garbage = Garbage
INVARIANT WaitReturnsElement
CHECK_DEADLOCK FALSE
