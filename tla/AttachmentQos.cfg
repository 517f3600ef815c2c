CONSTANTS
  v1 = v1
  v2 = v2
  n1 = n1
  n2 = n2
  Vols = {v1}
  Nodes = {n1, n2}
  Controller = n1
  Datapath = "direct"
  Proxy = TRUE
  Block = FALSE
  SbvgName = TRUE
  Qos = TRUE
  Faults = {}
  MaxFaults = 0
  None = None
SPECIFICATION Spec
INVARIANTS
  PublishedHasQosTag
