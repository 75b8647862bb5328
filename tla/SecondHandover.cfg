SPECIFICATION Spec
CONSTANTS
    MaxEpisode = 1
    Mode = {"schedule", "manual"}
    Manual = "manual"
    Unknown = "unknown"
INVARIANTS
    OneHandoverPerEpisode
