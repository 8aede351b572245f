SPECIFICATION MCSpec
CONSTANTS
    i1 = i1
    i2 = i2
    g1 = g1
    p1 = p1
    None = None
    Identities <- MCIdentities
    Gateways <- MCGateways
    Probings <- MCProbings
    Hystereses <- MCHystereses
    U8Max = 2
    QueueLength = 1
    LaneMayFill = TRUE
    MaxGeneration = 2
    MaxRestarts = 1
INVARIANT UpIsWatched
PROPERTIES StaleRoundsIgnored HealthIsEarned PassingPathComesUp
