SPECIFICATION Spec
CHECK_DEADLOCK FALSE
CONSTANTS
    None = None
    tags = tags
    k1 = k1
    v1 = v1
    v2 = v2
    Prop = {tags}
    Shape <- MCShape
    Edge = {}
    Key = {k1}
    Val = {v1, v2}
    Uuid = {}
    Short = {}
    MaxListIndex = 2
    Field = {tags}
    Undeclared = {}
    TargetField <- MCNoTarget
    TargetKey <- MCNoTarget
    Nullable = {}
    Immutable = {}
    Version = {}
    Json = {}
    Sibling <- MCSibling
    InitRow <- MCInitRow
    MapLiteral = {}
    ListLiteral <- MCLists
    Index <- MCIndex
    MaxNest = 1
    MaxSteps = 3
INVARIANTS
    Agreement
    PlanExecutes
    NoPositionAfterShrink
    OpsFitColumns
