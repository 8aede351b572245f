SPECIFICATION Spec
CONSTANTS
  MaxTable = 2000000
  MaxPriority = 32765
  Ids = {1, 32}
  Slots = {s1, s2}
  MaxChanges = 2
  Kinds <- MCKinds
  Configs <- MCConfigs
  TableBase = 1000
  PriorityBase = 1000
  Free = free
  Early = early
  Pinned = pinned
  Bypassed = bypassed
INVARIANT BlockHolds
PROPERTIES ImplementsPinning ReadyPathServes DrainTakesNone
SYMMETRY Sym
CHECK_DEADLOCK FALSE
