SPECIFICATION Spec
CONSTANTS
    Configs <- RemovingConfigs
    Requests <- Drains
    None = None
    ORDER_QUEUE = 1
    MaxOrders = 2
    MaxEdits = 1
    MaxHups = 1
    MaxFaults = 1
    LateErrors = FALSE
INVARIANT
    IntentIsDurable
CHECK_DEADLOCK FALSE
