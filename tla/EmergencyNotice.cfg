SPECIFICATION NoticeFairSpec
CONSTANTS
    Episode = {e1}
    Process = {p1, p2}
    MaxAttempts = 3
INVARIANTS
    NoFalseAllClear
    TwoAttempts
PROPERTIES
    EveryEpisodeIsTold
