CONSTANTS
  Instances = {a, b}
  Removing = {b}
  MaxFaults = 3
  None = None
SPECIFICATION FairSpec
PROPERTIES
  StartsEventually
  Recovers
CHECK_DEADLOCK FALSE
