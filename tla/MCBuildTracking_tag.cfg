\* No store fault, no crash: is the tag of a successful build always numbered?
CONSTANTS
  j1 = j1
  Job = {j1}
  SpareId = {}
  None = None
  MaxConcurrent = 1
  MaxPolls = 1
  Durable = TRUE
  MaxFaults = 0
  MaxCrashes = 0
SPECIFICATION Spec
INVARIANT SuccessHasNumberedTag
CHECK_DEADLOCK FALSE
