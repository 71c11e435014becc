SPECIFICATION FairSpec
CONSTANTS
    vars = 2
    dimension = 5
    Inputs <- MCInputs
    get_implies = FALSE
    criticals_rotation = FALSE
INVARIANTS
    SearchBrackets
    TopIsMss
PROPERTIES
    EnumeratesMuses
    Termination
