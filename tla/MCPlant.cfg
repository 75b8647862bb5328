SPECIFICATION Spec
CONSTANTS
    Zone = {z1, z2}
    Device = {"plug", "trv"}
    Exposes <- MCExposes
    Slots <- MCSlots
    None = None
    Room = {r1}
    Values = {v1, v2}
    Unknown = Unknown
    MaxRestarts = 1
    Book = {"decisions", "commands", "both"}
    LastMinute <- MCLastMinute
    FirstSpan = 1
    Cycle = 1
    DayLength = 3
    KeepFor = 3
    Marks = {0, 2, 3, 5}
    MaxSize = 4
INVARIANTS OneVoice DrawnIsExecuted HistoryIsTrue
PROPERTY HomeAssistantFollows
CHECK_DEADLOCK FALSE
