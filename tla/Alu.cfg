CONSTANTS
    Programs <- GuestPrograms
    Stale = {0, 65535}
SPECIFICATION Spec
INVARIANTS
    TypeOK
    SumsAreExact
    ComparisonsDecide
    ProductsAndQuotients
    DecimalsAreExact
    RotationsUndo
    ShiftsAreExact
CHECK_DEADLOCK FALSE
