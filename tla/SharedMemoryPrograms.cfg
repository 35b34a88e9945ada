SPECIFICATION FairSpecPrograms
CONSTANTS
    Daemons = {d1, d2}
    Clis = {k}
    MaxSegments = 2
    MaxSamples = 2
    Writers = {w1, w2}
    Readers = {r}
    baud_rates = {9600, 115200}
    sampling_rates = {1, 100}
    log_levels = {0, 2}
    Controllers = {c1, c2}
    Devices = {e1, e2}
    MaxObjects = 1
INVARIANTS ReportNotOlderThanStamp KeyFollowsDaemon ConfigComplete
PROPERTY StopsOnSigint
CHECK_DEADLOCK FALSE
