SPECIFICATION FairSpec
CONSTANTS
    Uplinks = {1}
    Interfaces = {"a", "b"}
    Configs <- MovedConfigs
    Healths = {"out", "active"}
    None = None
    MaxChanges = 2
    MaxFaults = 1
    LateErrors = TRUE
    EarlyReloads = TRUE
    Inspecting = TRUE
    AdoptionErrors = TRUE
PROPERTIES
    WithdrawalNeedsNoLane
    Converges
