CONSTANTS
    p1 = p1  p2 = p2  p3 = p3  s1 = s1
    Handlers = {p1, p2}
    Sessions = {s1}
    None = None
    MaxRequests = 3
    MaxCrashes = 1
SPECIFICATION FairSpec
CHECK_DEADLOCK FALSE
INVARIANTS AnswersKept
PROPERTIES ConfirmsOneShot RequestEnds
