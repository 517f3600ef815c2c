CONSTANTS
  n1 = n1
  n2 = n2
  i1 = i1
  i2 = i2
  i3 = i3
  Names = {n1, n2}
  Ids = {i1, i2, i3}
  Reqs <- VariedReqs
  ExtentSize = 2
  ExtentCount = 3
  DefaultSize = 2
  MaxTries = 2
  Faults = {"lookup", "query", "wipe", "deactivate", "change", "timeout", "late", "crash", "lost"}
  MaxFaults = 3
  None = None
SPECIFICATION Spec
INVARIANTS
  BoundVolumeExists
PROPERTIES
  OnlyDeletedVolumesVanish
CHECK_DEADLOCK FALSE
