\* PostgreSQL store: one store call fails and the service crashes once.
CONSTANTS
  j1 = j1
  j2 = j2
  s1 = s1
  s2 = s2
  Job = {j1, j2}
  SpareId = {s1, s2}
  None = None
  MaxConcurrent = 1
  MaxPolls = 1
  Durable = TRUE
  MaxFaults = 1
  MaxCrashes = 1
SPECIFICATION Spec
SYMMETRY Symmetry
INVARIANTS TypeOK SlotsExact AtMostMaxTracked VerdictIsReal NoUntrackedBuild HistoryComplete NoticesAgree NotifySentIsTrue
PROPERTIES TerminalRowsStay ImplementsHistory
CHECK_DEADLOCK FALSE
