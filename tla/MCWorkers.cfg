SPECIFICATION WorkersSpec
CONSTANTS
    Uplinks = {1, 2}
    Interfaces = {"a", "b"}
    Configs <- FamilyConfigs
    Healths = {"out", "active"}
    None = None
    MaxChanges = 3
    MaxFaults = 1
    LateErrors = FALSE
    EarlyReloads = FALSE
    Inspecting = FALSE
    AdoptionErrors = FALSE
    QUEUE = 2
    BATCH_CHANGES = 1
    WAITING = 2
    Hour = 2
    Coalesce = 1
    Users = {u, v}
    NoUser = none
INVARIANTS BalancedIsAssigned AssignedIsLookedUp RollingHour RetriesAreSpaced RunsAsConfigured
PROPERTIES AppliedIsInstalled GuardsCover
CHECK_DEADLOCK FALSE
