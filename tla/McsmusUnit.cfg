SPECIFICATION Spec
CONSTANTS
    vars = 4
    dimension = 8
    Inputs <- MCUnitInputs
    McsesBound = 0
INVARIANTS
    UnitConflictIsMus
