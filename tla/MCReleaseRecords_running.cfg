\* Argo CD may not answer: is the running tag left out of the candidates?
SPECIFICATION Spec
CONSTANTS
  Tag = {main1, main2}
  StaticTag = main1
  Summaries = {main1}
  Request = {r1}
  PageSize = 1
  MaxTime = 1
  MaxChanges = 1
INVARIANT CandidatesExcludeRunning
CHECK_DEADLOCK FALSE
