SPECIFICATION DialogueSpec
CONSTANTS
    Nil = Nil
    Ids <- MCIds
    Texts <- MCTexts
    Chains <- MCChains
    Matches <- MCMatches
    MaxChains = 2
    MaxBreaks = 1
    MaxBeside = 1
INVARIANTS
    AnswersOffered
    CarriedOnce
    NothingSkipped
    DroppedIsGone
