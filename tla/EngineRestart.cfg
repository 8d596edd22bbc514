SPECIFICATION FairEngineSpec
CONSTANTS
    OrderId = {o1}
    Feed = {e1, e2}
    EventId <- Events
    ClientKey = {k1}
    Owner = {w1}
    Venue = {v1}
    KillScope = {}
    Global = global
    NoOrder = NoOrder
    NoKey = NoKey
    NoEvent = NoEvent
    MaxQty = 3
    AllowOverfill = FALSE
    Parent = {p1}
    ParentQty = 3
    MaxSlices = 2
    Persistent = TRUE
    LoadAnywhere = FALSE
    NoParent = NoParent
    NoSave = NoSave
INVARIANTS
    FillsCountOnce
PROPERTIES
    ExecuteReturns
    ClosedStaysClosed
CHECK_DEADLOCK FALSE
