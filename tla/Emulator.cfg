CONSTANTS
    Keys <- MCKeys
    NoKey = NoKey
    Programs <- MCGuests
    CodeSize = 8
    Hookable = {22}
    SizeMod = 3
    Budgets = {0, 1}
    MaxKeys = 2
SPECIFICATION Spec
INVARIANTS
    TypeOK
    KeysInOrder
    PeekIsPromise
    ExecutesOnlyWhenRunning
    ToldTruth
    ErrorIsExplained
    RunWithinBudget
    RunCountLag
PROPERTIES
    RunGetsShorter
    ReadWaits
    KeyboardImplemented
