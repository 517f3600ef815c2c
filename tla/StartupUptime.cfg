CONSTANTS
  Instances = {a}
  Removing = {}
  MaxFaults = 0
  None = None
SPECIFICATION FairSpec
PROPERTIES
  UptimeReported
CHECK_DEADLOCK FALSE
