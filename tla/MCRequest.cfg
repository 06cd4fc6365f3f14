SPECIFICATION RequestSpec
CHECK_DEADLOCK FALSE
CONSTANTS
    None = None
    Illegal = Illegal
    id = id
    ver = ver
    name = name
    labels = labels
    tags = tags
    owner = owner
    kids = kids
    gone = gone
    k1 = k1
    k2 = k2
    v1 = v1
    v2 = v2
    Prop <- MCProp
    Shape <- MCShape
    Edge = {owner, kids}
    Key = {k1, k2}
    Val = {v1, v2}
    Uuid = {name}
    Short = {v2}
    MaxListIndex = 2
    Field <- MCProp
    Undeclared = {}
    TargetField <- MCTarget
    TargetKey <- MCTargetKey
    Nullable = {name, ver, owner, gone}
    Immutable = {id}
    Version = {ver}
    Json = {}
    Sibling <- MCSibling
    InitRow <- MCInitRow
    MapLiteral <- MCMapLiteral
    ListLiteral <- MCListLiteral
    Index = {}
    MaxNest = 0
    MaxSteps = 10
    Declared <- MCDeclared
    NumberOf <- MCNumber
    Erased = {gone}
    Message <- MCMessage
INVARIANTS
    RequestTypeOK
    RequestCompiles
    RowAsAsked
    LockHolds
    NothingAsked
