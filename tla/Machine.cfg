SPECIFICATION Spec
CONSTANTS
    Guests <- GuestsMC
    AddressSpace = 1114112
INVARIANTS
    TypeOK
    StackHolds
    PairsAreInverse
    BlocksAreWritten
    SearchStopsAtFirst
    
PROPERTIES
    LeaIsAddress
CHECK_DEADLOCK FALSE
