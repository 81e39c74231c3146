CONSTANTS
    p1 = p1  p2 = p2  w1 = w1  w2 = w2  s1 = s1  s2 = s2
    d1 = d1  d2 = d2  t1 = t1  t2 = t2
    Handlers = {p1, p2}
    Workflows = {w1, w2}
    Sessions = {s1, s2}
    Defs = {d1, d2}
    Tools = {t1, t2}
    ToolOf <- TwoTools
    Eligible = {}
    Sensitive = {}
    Inputs = {"approve_enable_only", "cancel"}
    MaxPending = 1
    MaxCrashes = 0
    None = None
SPECIFICATION Spec
SYMMETRY Symmetry
CHECK_DEADLOCK FALSE
INVARIANTS EnabledHasFiles StartChecksHold PendingWithinLimit
