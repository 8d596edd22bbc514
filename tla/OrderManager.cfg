SPECIFICATION Spec
CONSTANTS
    OrderId = {o1, o2}
    EventId = {e1, e2, e3}
    ClientKey = {k1}
    Owner = {w1}
    Venue = {v1}
    KillScope = {v1}
    Global = global
    NoOrder = NoOrder
    NoKey = NoKey
    NoEvent = NoEvent
    MaxQty = 3
    AllowOverfill = FALSE
SYMMETRY IdSymmetry
INVARIANTS
    FilledMatchesLedger
    FillOncePerEvent
    StateMatchesFills
    KeyBindsOneOrder
    ReplacementLinked
    ReplacementExact
PROPERTIES
    TerminalFrozen
    ImplementsBook
