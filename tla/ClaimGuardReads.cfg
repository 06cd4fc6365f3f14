SPECIFICATION Spec
CHECK_DEADLOCK FALSE
CONSTANTS
    None = None
    labels = labels
    desc = desc
    nope = nope
    k1 = k1
    k2 = k2
    v1 = v1
    v2 = v2
    Prop <- MCProp
    Shape <- MCShape
    Edge = {}
    Key = {k1, k2}
    Val = {v1, v2}
    Uuid = {labels}
    Short = {v2}
    MaxListIndex = 2
    Field <- MCField
    Undeclared = {nope}
    TargetField <- MCNoTarget
    TargetKey <- MCNoTarget
    Nullable = {desc}
    Immutable = {}
    Version = {}
    Json = {}
    Sibling <- MCSibling
    InitRow <- MCInitRow
    MapLiteral <- MCMaps
    ListLiteral = {}
    Index = {}
    MaxNest = 2
    MaxSteps = 3
INVARIANT GuardReadsRefused
