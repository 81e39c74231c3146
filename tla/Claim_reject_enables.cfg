CONSTANTS
    p1 = p1  p2 = p2  w1 = w1  w2 = w2  s1 = s1  s2 = s2
    d1 = d1  d2 = d2  t1 = t1  t2 = t2
    Handlers = {p1}
    Workflows = {w1}
    Sessions = {s1}
    Defs = {d1}
    Tools = {t1}
    ToolOf <- OneTool
    Eligible = {d1}
    Sensitive = {}
    Inputs <- Decisions
    MaxPending = 1
    MaxCrashes = 1
    None = None
SPECIFICATION Spec
SYMMETRY Symmetry
CHECK_DEADLOCK FALSE
PROPERTIES RejectDoesNotEnable
