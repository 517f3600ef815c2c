CONSTANTS
  Instances = {a, b}
  Removing = {}
  MaxFaults = 0
  None = None
SPECIFICATION Spec
INVARIANTS
  NoConcurrentLvm
CHECK_DEADLOCK FALSE
