\* Two builds, one after the other, two polls each.
CONSTANTS
  MaxBuilds = 2
  MaxAttempts = 2
SPECIFICATION FairSpec
INVARIANTS TypeOK NamesPushedImages SuccessIsRecorded DeploysItsOwnTag RecordedAfterOperation
PROPERTIES EveryBuildEnds
CHECK_DEADLOCK FALSE
