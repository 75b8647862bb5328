SPECIFICATION FairSpec
CONSTANTS
    MaxEpisode = 2
    Mode = {"schedule", "manual"}
    Manual = "manual"
    Unknown = "unknown"
INVARIANTS
    OneHandoverPerStay
PROPERTIES
    RestoreFollowsHandover
    HandoverComes
