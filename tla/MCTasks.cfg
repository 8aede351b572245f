SPECIFICATION TasksSpec
CONSTANTS
    RING_EVENTS = 2
    RING_BYTES = 3
    Kinds = {"path"}
    Sizes = {1, 2}
    Selections = {{}}
    Notifiers = 1
    Capacity = 2
    MaxBytes = 3
    Limits = {1, 2}
    MaxEvents = 3
    MaxRestarts = 1
    HookNames = {1, 2}
    Users = {u}
    NoUser = none
    Slots = 1
    Icmp = {1}
    Tcp = {2}
    MaxTries = 2
    SeqSpace = 2
    Identifiers = {7}
    MaxAttempts = 2
    Paths = {"a", "b"}
    Conns = {1, 2}
    Limit = 1
INVARIANTS NoSilentGap VerdictIsTrue OldAccessIsCut
PROPERTY TasksSettle
CHECK_DEADLOCK FALSE
