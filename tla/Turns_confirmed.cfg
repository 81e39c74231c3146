CONSTANTS
    fa = fa  fb = fb  t1 = t1
    Files = {fa, fb}
    Alike <- MCAlike
    Tools = {t1}
    Marked = {}
    Plans <- MCPlans
    Questions <- MCQuestions
    MaxProposals = 2
    None = None
SPECIFICATION FairSpec
CHECK_DEADLOCK FALSE
INVARIANTS TypeOK UnaskedReadsOrOpens OneCallPerYes EffectMatchesApproval
PROPERTIES TurnEnds
