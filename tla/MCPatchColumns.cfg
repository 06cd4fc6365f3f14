SPECIFICATION Spec
CHECK_DEADLOCK FALSE
CONSTANTS
    None = None
    id = id
    desc = desc
    uid = uid
    ver = ver
    labels = labels
    meta = meta
    nope = nope
    nada = nada
    k1 = k1
    v1 = v1
    v2 = v2
    Prop <- MCProp
    Shape <- MCShape
    Edge = {}
    Key = {k1}
    Val = {v1, v2}
    Uuid = {uid}
    Short = {v2}
    MaxListIndex = 2
    Field <- MCField
    Undeclared <- MCUndeclared
    TargetField <- MCNoTarget
    TargetKey <- MCNoTarget
    Nullable = {desc}
    Immutable = {id, labels}
    Version = {ver}
    Json = {}
    Sibling <- MCSibling
    InitRow <- MCInitRow
    MapLiteral <- MCMaps
    ListLiteral = {}
    Index = {}
    MaxNest = 1
    MaxSteps = 3
INVARIANTS
    PlanExecutes
    OneWritePerColumn
    PlanStorable
PROPERTIES
    ProtectedColumnsUnwritten
