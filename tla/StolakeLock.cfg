CONSTANTS
  Callers = {"node", "controller"}
  Workloads <- MCWorkloads
  Versions <- MCVersions
  HostIp = "ip"
  NodeIp = "ip"
  MaxCalls = 3
  MaxDeaths = 1
SPECIFICATION Spec
INVARIANTS
  LockIsAsReported
CHECK_DEADLOCK FALSE
