\* Two changes and two failed reads.
CONSTANTS
  None = None
  Failed = Failed
  Unread = Unread
  StaticTag = "t1"
  Summaries = {"t1"}
  PageSize = 2
  Start <- MCStart
  Options <- MCOptions
  Asks <- MCAsks
  WordIn <- MCWordIn
  MaxChanges = 2
  MaxFailures = 2
SPECIFICATION Spec
INVARIANTS ReadyIsTrue WasteIsReal DetailIsAsked
CHECK_DEADLOCK FALSE
