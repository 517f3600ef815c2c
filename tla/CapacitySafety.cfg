CONSTANTS
  Absent = Absent
  Params <- AllParams
  Sizes <- AllSizes
  Limits = {0, 6}
  Devices = 4
  ExtentCount = 12
  ExtentSize = 4
  DefaultSize = 10
  Width = 8
  MaxVolumes = 2
SPECIFICATION Spec
INVARIANTS
  NothingIgnoredSilently
  NoFalseRefusal
  ReportedCapacityIsLargest
  TightSize
