\* Memory store, one token, one crash: safety of what is forgotten, and liveness.
CONSTANTS
  j1 = j1
  j2 = j2
  Job = {j1, j2}
  SpareId = {}
  None = None
  MaxConcurrent = 1
  MaxPolls = 1
  Durable = FALSE
  MaxFaults = 0
  MaxCrashes = 1
SPECIFICATION FairSpec
PROPERTIES ImplementsHistory EveryGoroutineEnds EveryRecordEnds
CHECK_DEADLOCK FALSE
