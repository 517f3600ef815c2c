CONSTANTS
  n1 = n1
  n2 = n2
  i1 = i1
  i2 = i2
  i3 = i3
  Names = {n1}
  Ids = {i1, i2, i3}
  Reqs <- SingleReq
  ExtentSize = 2
  ExtentCount = 3
  DefaultSize = 2
  MaxTries = 2
  Faults = {"lookup"}
  MaxFaults = 1
  None = None
SPECIFICATION Spec
INVARIANTS
  DeletedVolumeIsGone
CHECK_DEADLOCK FALSE
