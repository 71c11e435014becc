SPECIFICATION FairSpec
CONSTANTS
    vars = 2
    dimension = 5
    Inputs <- MCPlainInputs
    get_implies = TRUE
    criticals_rotation = FALSE
    mssLimit = 2
    streakLimit = 1
    rotationStreak = 2
    rotationLimit = 3
INVARIANTS
    CoverHoldsLocalMusesOnly
    TopIsMssOfSubset
    InheritedCritsAreCritical
    WorkIsNew
PROPERTIES
    EnumeratesMuses
    Termination
