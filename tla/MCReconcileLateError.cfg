SPECIFICATION Spec
CONSTANTS
    Uplinks = {1}
    Interfaces = {"a", "b"}
    Configs <- MovedConfigs
    Healths = {"out", "active"}
    None = None
    MaxChanges = 2
    MaxFaults = 1
    LateErrors = TRUE
    EarlyReloads = FALSE
    Inspecting = FALSE
    AdoptionErrors = FALSE
INVARIANT
    BalancedIsAssigned
CHECK_DEADLOCK FALSE
