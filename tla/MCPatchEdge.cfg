SPECIFICATION Spec
CHECK_DEADLOCK FALSE
CONSTANTS
    None = None
    parent = parent
    owner = owner
    a = a
    b = b
    id = id
    k1 = k1
    v1 = v1
    v2 = v2
    Prop <- MCProp
    Shape <- MCShape
    Edge = {parent, owner}
    Key = {k1}
    Val = {v1, v2}
    Uuid = {owner}
    Short = {v2}
    MaxListIndex = 2
    Field <- MCField
    Undeclared = {id}
    TargetField <- MCTargetField
    TargetKey <- MCTargetKey
    Nullable = {parent, a, b}
    Immutable = {}
    Version = {}
    Json = {a}
    Sibling <- MCSibling
    InitRow <- MCInitRow
    MapLiteral = {}
    ListLiteral = {}
    Index = {}
    MaxNest = 1
    MaxSteps = 3
INVARIANTS
    Agreement
    OpsFitColumns
    OnlySiblingsDiffer
