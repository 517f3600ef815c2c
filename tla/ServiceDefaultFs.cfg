CONSTANTS
  Requests = {r1, r2}
  Calls <- MCCalls
  Configs <- MCConfigs
  Volumes = {"v1", "v2"}
  Existing = {"v1"}
  Size = 3
  MaxEvents = 2
  DefaultFs = "xfs"
  OtherFs = "ext4"
SPECIFICATION Spec
SYMMETRY Symmetry
INVARIANTS
  DefaultIsPublishable
CHECK_DEADLOCK FALSE
