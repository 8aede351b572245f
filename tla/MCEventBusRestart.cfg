SPECIFICATION Spec
CONSTANTS
    RING_EVENTS = 2
    RING_BYTES = 3
    Kinds = {"path", "config"}
    Sizes = {1, 2}
    Selections = {{"config"}}
    Notifiers = 1
    Capacity = 2
    MaxBytes = 3
    Limits = {1, 2}
    MaxEvents = 3
    MaxRestarts = 1
INVARIANT RestartIsFollowed
CHECK_DEADLOCK FALSE
