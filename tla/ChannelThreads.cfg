SPECIFICATION FairSpec
CONSTANTS
    Senders = {s1, s2}
    Receivers = {r1, r2}
    Threads = {t1, t2}
    OneThread = t1
    Capacity <- MCCapacity
    MaxSends <- MCMaxSends
    NoValue = NoValue
    Garbage = Garbage

PROPERTIES ReceivedAcrossThreads
CHECK_DEADLOCK FALSE
