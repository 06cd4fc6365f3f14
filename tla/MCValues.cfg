SPECIFICATION Spec
CONSTANTS
    None = None
    plain = plain
    opt = opt
    left = left
    right = right
    sub = sub
    list = list
    map = map
    choice = choice
    synth = synth
    k1 = k1
    k2 = k2
    Field <- MCField
    Shape <- MCShape
    Oneof <- MCOneof
    Synthetic = {synth}
    MapKey = {k1, k2}
    Unknown = Unknown
    Props <- MCProps
    MaxItems = 4
CHECK_DEADLOCK FALSE
INVARIANTS
    LiteralTypeOK
    RefusedExactly
    NothingLost
    ValueFits
