CONSTANTS
  n1 = n1
  n2 = n2
  i1 = i1
  i2 = i2
  i3 = i3
  Names = {n1, n2}
  Ids = {i1, i2, i3}
  Reqs <- FittingReqs
  ExtentSize = 2
  ExtentCount = 3
  DefaultSize = 2
  MaxTries = 2
  Faults = {"query", "wipe", "deactivate", "change", "timeout", "crash", "lost", "draw"}
  MaxFaults = 2
  None = None
SPECIFICATION FairSpec
INVARIANTS
  OneVolumePerName
  DeletedVolumeIsGone
PROPERTIES
  ImplementsVolumeStore
  CreateCompletes
  DeleteCompletes
CHECK_DEADLOCK FALSE
