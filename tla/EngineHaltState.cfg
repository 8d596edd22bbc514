SPECIFICATION EngineSpec
CONSTANTS
    OrderId = {o1, o2}
    Feed = {}
    EventId <- Events
    ClientKey = {}
    Owner = {w1}
    Venue = {v1}
    KillScope = {global}
    Global = global
    NoOrder = NoOrder
    NoKey = NoKey
    NoEvent = NoEvent
    MaxQty = 2
    AllowOverfill = FALSE
    Parent = {p1}
    ParentQty = 2
    MaxSlices = 2
    Persistent = FALSE
    LoadAnywhere = FALSE
    NoParent = NoParent
    NoSave = NoSave
SYMMETRY Symmetry
PROPERTIES
    HaltedLeavesByTable
CHECK_DEADLOCK FALSE
