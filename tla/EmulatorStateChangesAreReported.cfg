CONSTANTS
    Keys <- MCOneKey
    NoKey = NoKey
    Programs <- MCGuests
    CodeSize = 8
    Hookable = {22}
    SizeMod = 3
    Budgets = {0, 2}
    MaxKeys = 1
SPECIFICATION Spec
INVARIANTS
    StateChangesAreReported
