SPECIFICATION FairSpec
CONSTANTS
    Jobs = {j1, j2}
    Fds = {f1, f2}
    PoolSizes <- MCPoolSizes
    block_size <- MCBlockSize
    FrameSizes <- MCFrameSizes
    Timeouts <- MCTimeouts
    kMaxEvents <- MCMaxEvents
    MaxPools <- MCMaxPools
    NoJob = NoJob
    NoBlock = NoBlock
    NoFd = NoFd
INVARIANTS BlockInOnePlace ResumedByOwnTimer
PROPERTIES TimersFire RunReturns
CHECK_DEADLOCK FALSE
