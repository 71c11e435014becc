SPECIFICATION FairSpec
CONSTANTS
    vars = 2
    dimension = 4
    Inputs <- MCHardInputs
    get_implies = TRUE
    criticals_rotation = FALSE
INVARIANTS
    CritsAreCritical
