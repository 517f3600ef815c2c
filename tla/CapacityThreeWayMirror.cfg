CONSTANTS
  Params <- ThreeWayMirror
  Sizes = {4}
  Limits = {0}
  Devices = 3
  ExtentCount = 9
  ExtentSize = 4
  DefaultSize = 4
  Width = 8
  MaxVolumes = 1
  Absent = Absent
SPECIFICATION Spec
INVARIANTS
  NoFalseRefusal
