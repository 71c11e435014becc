SPECIFICATION FairSpec
CONSTANTS
    dimension = 5
    Maps <- MCMaps
    Queries <- MCQueries
    SolveBound = 2
    restart_first = 1
INVARIANTS
    OnlyImpliedLearnt
    ModelsKept
    NoMissedUnit
    FinalConflictImplied
PROPERTIES
    ImplementsOracle
    Termination
