SPECIFICATION Spec
CONSTANTS
    Device = {t1, t2}
    Wall = wall
    Never = never
    SensorTimeout = 1
    RecoverySeconds = 1
    RecoverySamples = 2
    MaxTime = 3
    MaxEpisode = 2
PROPERTIES
    KeepsContract
    ReturnIsProven
CHECK_DEADLOCK FALSE
