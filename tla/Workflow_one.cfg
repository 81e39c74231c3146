CONSTANTS
    p1 = p1  p2 = p2  w1 = w1  w2 = w2  s1 = s1  s2 = s2
    d1 = d1  d2 = d2  t1 = t1  t2 = t2
    Handlers = {p1, p2}
    Workflows = {w1}
    Sessions = {s1}
    Defs = {d1}
    Tools = {t1}
    ToolOf <- OneTool
    Eligible = {d1}
    Sensitive = {d1}
    Inputs = {"approve_enable_only", "approve_enable_and_run_once", "reject", "confirm"}
    MaxPending = 1
    MaxCrashes = 1
    None = None
SPECIFICATION FairSpec
CHECK_DEADLOCK FALSE
INVARIANTS ActionAtMostOnce ExecutionConfirmed EnabledOnlyIfApproved OutcomeConsistent
PROPERTIES NeverReopened ImplementsOneShot ExpiredEventuallyCleaned
