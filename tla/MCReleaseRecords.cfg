\* Two interchangeable requests, two tags, two seconds, one change of what runs.
SPECIFICATION Spec
CONSTANTS
  Tag = {main1, main2}
  StaticTag = main1
  Summaries = {main1}
  Request = {r1, r2}
  PageSize = 1
  MaxTime = 2
  MaxChanges = 1
INVARIANT TypeOK
INVARIANT CandidatesNotRunning
INVARIANT CandidatesWereReady
INVARIANT ConfirmedRecordsListed
INVARIANT SnapshotsKept
PROPERTY BaseRecordsKept
SYMMETRY RequestSymmetry
CHECK_DEADLOCK FALSE
