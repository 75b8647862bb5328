SPECIFICATION HouseholdSpec
CONSTANTS
    None = None
    a = a
    b = b
    u = u
    v = v
    c1 = c1
    c2 = c2
    Zones = {a, b}
    Users = {u, v}
    Clients = {c1, c2}
    Modes = {"frost", "cool", "warm"}
    FrostMode = "frost"
    WarmMode = "warm"
    CoolMode = "cool"
    Days = 3
    DayMinutes = 2
    InitialPlans <- MCInitialPlans
    First <- MCFirst
    Later <- MCLater
    MaxUndoSteps = 1
    MaxEvents <- MCMaxEvents
    Visible <- MCVisible
    Week = 4
    MinTemp = 0
    MaxTemp = 24
    FrostFallback = 16
    Ahead = 5
    ClockChange = 2
    OffsetBefore = 2
    OffsetAfter = 0
    Curve <- MCCurve
    Eligible = {a}
    PiMinimum = 3
    Repertoires <- MCRepertoires
SYMMETRY Symmetric
INVARIANTS
    TokensRetrace
    RevertedOnce
    PreviewKeepsItsWord
PROPERTIES
    GestureIsExact
    RevertIsExact
    FinishEndsTheAbsence
CHECK_DEADLOCK FALSE
