SPECIFICATION Spec
CONSTANTS
    Instance = {i1, i2}
    Paths = {"switch", "valve", "thermostat"}
    Nothing = Nothing
    None = None
    SESSION_TTL = 6
    BACKOFF_MAX = 4
    REFRESH = 3
    MaxAge = 1
    LOCKOUT = 3
PROPERTIES
    DeviceFollows
    SwitchesAgain
    WaitGrows
CHECK_DEADLOCK FALSE
