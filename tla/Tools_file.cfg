SPECIFICATION Spec
CONSTANTS
    tool = tool
    other = other
    c1 = c1
    c2 = c2
    p1 = p1
    p2 = p2
    None = None
    Tools <- MCTools
    Contents <- MCContents
    Processes <- MCProcesses
    Usage <- MCUsage
    MaxCommands = 4
    MaxEdits = 1
SYMMETRY MCSymmetry
INVARIANTS
    HashApproved
    ListedApproved
    FilesThere
CHECK_DEADLOCK FALSE
