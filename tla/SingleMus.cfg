SPECIFICATION FairCallSpec
CONSTANTS
    vars = 3
    dimension = 6
    Inputs <- MCInputs
    ShrinkAlgs = {"custom", "extension", "muser"}
    McsesBound = 1
INVARIANTS
    ReturnsMus
    KeptAreNeeded
    NeverFails
    BlocksAreHarmless
PROPERTIES
    ImplementsExtraction
    Termination
