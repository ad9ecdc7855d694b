CONSTANTS
    Programs <- GuestPrograms
    Stale = {0, 65535}
SPECIFICATION Spec
INVARIANT
    ProductFlagsAsDocumented
CHECK_DEADLOCK FALSE
