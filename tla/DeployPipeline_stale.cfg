\* Does "synced and healthy" mean that the new image is deployed?
CONSTANTS
  MaxBuilds = 1
  MaxAttempts = 1
SPECIFICATION Spec
INVARIANT SyncedMeansDeployed
CHECK_DEADLOCK FALSE
