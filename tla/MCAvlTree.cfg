SPECIFICATION Spec
CONSTANTS
    None = None
    Keys <- MCKeys
INVARIANTS
    SearchOrder
    HeightsTrue
    Balanced
    OneTurnPerPut
PROPERTIES
    ImplementsSet
