SPECIFICATION FairSpec
CONSTANTS
    Instance = {a, b}
    NoHolder = none
    NoRow = norow
    Timeout = 1
    MaxTime = 2
    Actuator = {v}
    NoCommand = idle
INVARIANTS
    LeaseIsExclusive
PROPERTIES
    CommandStartsUnderOwnLease
    StandbyTakesOver
    DisarmTakesEffect
    ArmedLeaderKeepsSending
CHECK_DEADLOCK FALSE
