SPECIFICATION FairSpecContainers
CONSTANTS
    Threads = {t1, t2}
    Values = {a, b}
    Capacity = 2
    TagModulus <- MCTagModulus
    MaxOps <- MCMaxOps
    NoValue = NoValue
    HReaders = {t1, t2, t3}
    HWriters = {t2, t3}
    HObjects = {o1, o2}
    kMaxHazardPointers = 2
    HNull = HNull
    CThreads = {t1, t2}
    CValues = {a, b}
    CNodes = {n1, n2}
    CMaxCalls = 3
    CMaxCount = 4
    CNull = CNull
    CNone = CNone
    QThreads <- MCQThreads
    QNodes = {n1, n2, n3, n4}
    QMaxPushes <- MCQMaxPushes
    QMaxPops <- MCQMaxPops
    QMaxCount = 4
    QNull = QNull
INVARIANTS OnePlace HazardProtects CountsProtect ElementsKept
PROPERTIES ImplementAbstract OpsProgress
CHECK_DEADLOCK FALSE
