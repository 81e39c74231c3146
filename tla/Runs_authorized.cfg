CONSTANTS
    w1 = w1  r1 = r1  r2 = r2  c1 = c1  c2 = c2
    Workflows = {w1}
    Definitions <- Defined
    Runs = {r1, r2}
    Clients = {c1, c2}
    None = None
SPECIFICATION Spec
SYMMETRY Symmetry
CHECK_DEADLOCK FALSE
INVARIANTS HandlerAuthorized EnabledWasApproved RunMatchesSteps
