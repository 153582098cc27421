\* Batches of two and three items, Jenkins restarts once.
CONSTANTS
  Trees <- MCTrees
  Batches <- MCBatches
  None = None
  MaxRestarts = 1
SPECIFICATION Spec
INVARIANTS BuildsAsAsked ItemsAccounted FailuresHaveCauses
CHECK_DEADLOCK FALSE
