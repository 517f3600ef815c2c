CONSTANTS
  Params <- MirrorParams
  Sizes = {4, 12}
  Limits = {0}
  Devices = 2
  ExtentCount = 3
  ExtentSize = 4
  DefaultSize = 4
  Width = 8
  MaxVolumes = 1
  Absent = Absent
SPECIFICATION Spec
INVARIANTS
  ReportedWithinUnallocated
