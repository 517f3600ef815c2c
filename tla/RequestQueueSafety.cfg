CONSTANTS
  Requests = {r1, r2, r3, r4}
  Limit = 3
SPECIFICATION FairSpec
INVARIANTS
  TypeOK
  MutualExclusion
  NoLeak
  NoLostWakeup
PROPERTIES
  CancelledNeverExecuted
  NoOvertaking
  ImplementsBoundedServer
  EveryRequestAnswered
  CancelledLeavesQueue
