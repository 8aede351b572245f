SPECIFICATION FairSpec
CONSTANTS
  Interfaces = {"w"}
  Files <- MCFiles
  Foreign = {f, g}
  Default = f
  Wanted = W
  Absent = absent
  NoManifest = none
  MaxEvents = 2
INVARIANTS Restorable AppliedIsInPlace
PROPERTIES SetBeforeUse RestoredLast PendingIsApplied
CHECK_DEADLOCK FALSE
