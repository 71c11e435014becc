SPECIFICATION FairSpec
CONSTANTS
    vars = 3
    dimension = 4
    Inputs = {}
    Files <- MCFiles
    Checks <- MCChecks
    CheckBound = 2
    growth = 0
    clause_lim = 3
INVARIANTS
    MusesKept
    EliminationReversible
PROPERTIES
    ImplementsOracle
    Termination
