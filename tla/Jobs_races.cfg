CONSTANTS
    j1 = j1  j2 = j2  c1 = c1  c2 = c2
    Jobs = {j1, j2}
    Clients = {c1}
    Kinds = {"reminder", "request"}
    Delays = {0, 1}
    MaxTime = 1
    MaxRequeues = 1
    MaxRestarts = 1
    LogMayFail = TRUE
    None = None
SPECIFICATION FairSpec
CHECK_DEADLOCK FALSE
INVARIANTS RunsMatchQueued StatusMatchesLastRun
PROPERTIES EndedUnlessRaced DueJobTakenUp
