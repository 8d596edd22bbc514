SPECIFICATION Spec
CONSTANTS
    OrderId = {o1, o2}
    EventId = {e1}
    ClientKey = {}
    Owner = {w1}
    Venue = {v1}
    KillScope = {}
    Global = global
    NoOrder = NoOrder
    NoKey = NoKey
    NoEvent = NoEvent
    MaxQty = 2
    AllowOverfill = FALSE
SYMMETRY IdSymmetry
INVARIANTS
    ReplaceableCanMove
CHECK_DEADLOCK FALSE
