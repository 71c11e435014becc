SPECIFICATION FairRotation
CONSTANTS
    vars = 3
    dimension = 6
    Inputs <- MCInputs
INVARIANTS
    SeedAsPromised
PROPERTIES
    PropagationEnds
