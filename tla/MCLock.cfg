SPECIFICATION Spec
CONSTANTS
    Client = {a, b}
    None = None
    MaxCalls = 1
    MaxCopies = 2
    Impatient = {a}
    MaxErase = 1
CHECK_DEADLOCK FALSE
INVARIANTS
    LockTypeOK
    AppliedOnce
    ConflictIsReal
PROPERTIES
    NoLostUpdate
