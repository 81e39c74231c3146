SPECIFICATION Spec
CONSTANTS
    cmd1 = cmd1
    cmd2 = cmd2
    pid1 = pid1
    pid2 = pid2
    None = None
    Commands <- MCCommands
    Pids <- MCPids
SYMMETRY MCSymmetry
INVARIANTS
    OneOwner
    StopEnds
    TokenThere
    JobRunOnce
CHECK_DEADLOCK FALSE
