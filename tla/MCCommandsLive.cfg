SPECIFICATION FairSpec
CONSTANTS
    Configs <- ReusingConfigs
    Requests <- AllKinds
    None = None
    ORDER_QUEUE = 2
    MaxOrders = 1
    MaxEdits = 1
    MaxHups = 1
    MaxFaults = 1
    LateErrors = TRUE
INVARIANT BindingsHold
PROPERTIES OkIsApplied OrdersAreAnswered
CHECK_DEADLOCK FALSE
