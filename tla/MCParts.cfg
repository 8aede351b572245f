SPECIFICATION PartsSpec
CONSTANTS
  MaxTable = 2000
  MaxPriority = 32765
  Files <- MCFiles
  WellFormed <- MCWellFormed
  Own <- MCOwn
  Lan <- MCLan
  MaxDuration = 100000
  MaxEdits = 2
  Rtts = {1, 3}
  Lost = 0
  MaxRounds = 3
  Procs = {p, q}
  Absent = absent
  Corrupt = corrupt
SYMMETRY Symmetric
INVARIANTS AcceptedIsUsable InstalledIsRecorded ServedAsConfigured
PROPERTIES GoodRoundsRecover RefusedChangesNothing ForeignIsLeft
CHECK_DEADLOCK FALSE
