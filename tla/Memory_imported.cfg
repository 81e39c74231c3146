CONSTANTS
    h1 = h1  h2 = h2  d1 = d1  d2 = d2
    corr = corr  deci = deci
    Threads = {h1, h2}
    Dirs = {d1, d2}
    Learnings = {corr, deci}
    Extracted = {corr}
    Decisions = {deci}
    OfProject = {corr, deci}
    Blocked = {}
    Refused = {}
    AutoSave = TRUE
    Limit = 1
    MaxFile = 2
    MaxFaults = 1
    None = None
SPECIFICATION FairSpec
CHECK_DEADLOCK FALSE
INVARIANTS ImportedOnce EarlierImported OnlyAgreed
PROPERTIES EngineComes
