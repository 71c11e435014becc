SPECIFICATION Spec
CONSTANTS
    vars = 2
    dimension = 4
    Inputs <- MCRepeatedInputs
    ShrinkAlgs = {"muser"}
INVARIANTS
    StaysInSeed
