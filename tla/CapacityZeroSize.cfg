CONSTANTS
  Params <- MirrorParams
  Sizes = {0, 4}
  Limits = {0, 8}
  Devices = 2
  ExtentCount = 3
  ExtentSize = 4
  DefaultSize = 4
  Width = 8
  MaxVolumes = 1
  Absent = Absent
SPECIFICATION Spec
INVARIANTS
  ZeroSizeTakesAll
