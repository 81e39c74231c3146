CONSTANTS
    j1 = j1  j2 = j2  c1 = c1  c2 = c2
    Jobs = {j1, j2}
    Clients = {c1}
    Kinds = {"reminder"}
    Delays = {0}
    MaxTime = 0
    MaxRequeues = 1
    MaxRestarts = 0
    LogMayFail = FALSE
    None = None
SPECIFICATION FairSpec

CHECK_DEADLOCK FALSE
PROPERTIES DueJobExecuted
