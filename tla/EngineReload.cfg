SPECIFICATION EngineSpec
CONSTANTS
    OrderId = {o1, o2}
    Feed = {e1}
    EventId <- Events
    ClientKey = {}
    Owner = {w1}
    Venue = {v1}
    KillScope = {}
    Global = global
    NoOrder = NoOrder
    NoKey = NoKey
    NoEvent = NoEvent
    MaxQty = 2
    AllowOverfill = FALSE
    Parent = {p1}
    ParentQty = 2
    MaxSlices = 2
    Persistent = TRUE
    LoadAnywhere = TRUE
    NoParent = NoParent
    NoSave = NoSave
SYMMETRY Symmetry
INVARIANTS
    FillsCountOnce
CHECK_DEADLOCK FALSE
