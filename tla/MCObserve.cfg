SPECIFICATION ObserveSpec
CONSTANTS
  Own = {1}
  Found = {2, 3}
  Objects = {3}
  Removals = 1
  MaxQueue = 2
  Tries = 1
  MaxChanges = 3
  Family = "v6"
  Uplinks <- MCUplinks
  discovery_tables <- MCTables
  Foreign = {30}
  Systems <- MCSystems
  Advertised <- MCAdvertised
  Lifetimes = {0, 1, 2}
  MaxTime = 2
  MaxDisturbances = 2
INVARIANT NoGhost
PROPERTIES HeldInConflict DiscoveryIsAccurate ObservationSettles
CHECK_DEADLOCK FALSE
