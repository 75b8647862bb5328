SPECIFICATION FairSpec
CONSTANTS
    MaxEpisode = 1
    MinOn = 2
    MinOff = 2
    FixedOn = 2
    FixedOff = 2
    CurvePoints <- MCCurvePoints
    WarmHysteresis = 1
    Outdoor <- MCColdOrWarm
    Stale = 1
    MaxGap = 2
    Cap = 2
    NoReading = NoReading
    NoTakt = NoTakt
    NoLog = NoLog
PROPERTIES
    KeepsMinimumOn
    ReturnKeepsMinimum
    TaktPulses
