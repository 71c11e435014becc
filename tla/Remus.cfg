SPECIFICATION FairSpec
CONSTANTS
    vars = 2
    dimension = 5
    Inputs <- MCPlainInputs
    get_implies = TRUE
    criticals_rotation = FALSE
    depthMUS = 1
    dim_reduction = 60
    streakLimit = 1
INVARIANTS
    TopIsMssOfSubset
    InheritedCritsAreCritical
PROPERTIES
    EnumeratesMuses
    Termination
