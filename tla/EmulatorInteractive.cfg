CONSTANTS
    Keys <- MCKeys
    NoKey = NoKey
    Programs <- MCLoops
    CodeSize = 10
    Hookable = {}
    SizeMod = 4
    Budgets = {0, 1, 3}
    MaxKeys = 3
SPECIFICATION InteractiveSpec
PROPERTIES
    EveryKeyArrives
    RunReturns
