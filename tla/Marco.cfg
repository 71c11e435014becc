SPECIFICATION FairSpec
CONSTANTS
    vars = 2
    dimension = 5
    Inputs <- MCInputs
    get_implies = TRUE
    criticals_rotation = TRUE
INVARIANTS
    TypeOK
    CritsAreCritical
    WorkIsNew
    BlockedDownAreMss
    AllMcsesFound
PROPERTIES
    EnumeratesMuses
    RoundsExplore
    Termination
