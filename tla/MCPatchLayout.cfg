SPECIFICATION Spec
CHECK_DEADLOCK FALSE
CONSTANTS
    Entity <- MCEntity
    FirstReserved = 19000
    LastReserved = 19999
    MaxFieldNumber = 536870911
INVARIANTS
    TypeOK
    NoDuplicate
    SlotsResolve
    RefusedByNumber
