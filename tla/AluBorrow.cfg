CONSTANTS
    Programs <- GuestPrograms
    Stale = {0, 65535}
SPECIFICATION Spec
INVARIANT
    CarryIsBorrow
CHECK_DEADLOCK FALSE
