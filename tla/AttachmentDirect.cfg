CONSTANTS
  v1 = v1
  v2 = v2
  n1 = n1
  n2 = n2
  Vols = {v1, v2}
  Nodes = {n1, n2}
  Controller = n1
  Datapath = "direct"
  Proxy = FALSE
  Block = FALSE
  SbvgName = TRUE
  Qos = TRUE
  Faults = {"lookup", "cmd", "timeout", "umount", "ignored", "crash", "lost"}
  MaxFaults = 3
  None = None
SPECIFICATION Spec
INVARIANTS
  UnpublishedMeansUnmounted
  MountedOnce
PROPERTIES
  DataKept
