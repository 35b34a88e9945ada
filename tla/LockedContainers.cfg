SPECIFICATION FairSpecContainers
CONSTANTS
    Producers = {p1, p2}
    Consumers = {c1, c2}
    MaxPushes = 2
    Mixed = FALSE
    NoElement = NoElement
    Garbage = Garbage
    QProducers = {p1, p2}
    QConsumers = {c1, c2}
    QRegulars = {c1}
    QMaxPushes = 2
    QNothing = QNothing
    TThreads = {t1, t2, t3}
    Keys <- MCKeys
    TValues = {v}
    TNone = TNone
    num_buckets = 2
    hasher <- MChasher
    TMaxCalls = 2
    LThreads = {t1, t2}
    LValues = {v, w}
    MaxNodes = 3
    LMaxCalls = 1
INVARIANTS PermitPerElement SnapshotIsState NoFreedNode StayersVisited
PROPERTIES EveryElementDelivered ImplementsQueue ElementsReturned OperationsReturn
CHECK_DEADLOCK FALSE
