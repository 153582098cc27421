\* Two replicas, two attempts, one outage, one crash.
CONSTANTS
  p1 = p1
  p2 = p2
  i1 = i1
  Pod = {p1, p2}
  Item = {i1}
  Attempts = 2
  MaxOutages = 1
  MaxCrashes = 1
SPECIFICATION FairSpec
INVARIANTS TypeOK RecordsAudited LostOnlyByCrash
PROPERTIES StartupEnds
