SPECIFICATION Spec
CHECK_DEADLOCK FALSE
CONSTANTS
    None = None
    f1 = f1
    f2 = f2
    A = A
    B = B
    C = C
    Msg = {A, B, C}
    File = {f1, f2}
    MessagesOf <- MCMessagesOf
    Number = {1, 2, 3}
    Schema <- MCSchema
    Desc <- MCDesc
    MaxParse = 3
INVARIANTS
    TypeOK
    GraphClosed
    StagedComplete
    NoReentry
    ReparseFindsAll
    OneToOne
    KeyAndStamps
    RpcsAsDeclared
PROPERTIES
    GraphIsRegistry
