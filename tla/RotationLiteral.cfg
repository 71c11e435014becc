SPECIFICATION RotationSpec
CONSTANTS
    vars = 3
    dimension = 4
    Inputs <- MCInputs
INVARIANTS
    EachHasAReason
