SPECIFICATION Spec
CONSTANTS
    None = None
    SensorTimeout = 1
    StuckAge = 2
    AlarmAge = 1
    DropWindow = 3
    Hold = 2
    GapTolerance = 2
    MaxSuspected = 3
    Silence = 2
    DropThreshold = 2
    MaxPlausibleDrop = 4
    Levels = {0, 2, 4}
    Contacts = {k1}
    InEmergencyMode = FALSE
    MaxEdits = 1
    Thermostats = {1}
    Offset <- MCOffset
    Degrees = {20}
    Payloads = {p}
    ECHO_INDEPENDENCE_DELAY = 2
    SourceTimeout = 1
    MaxSourceAge = 4
    MaxLag = 1
    Receivers = {r1}
    Resolution = 2
    MaxEvents = 3
    MaxDrops = 2
    MaxLists = 1
INVARIANTS
    AlarmFollowsTheOpening
    EchoIsNotTrusted
    PressOnce
CHECK_DEADLOCK FALSE
