CONSTANTS
  k1 = k1
  k2 = k2
  v1 = v1
  v2 = v2
  Key = {k1, k2}
  Val = {v1, v2}
  Absent = Absent
  Quid = {q1}
  NoQuid = NoQuid
  None = None
  Roots <- MCRoots
  Writes <- MCWrites
  Watches <- MCWatches
  LinkKey = k1
  FeedKey = k1
  SubKey = k2
  Valid <- MCValid
  MaxCalls = 4
SPECIFICATION Spec
CHECK_DEADLOCK FALSE
INVARIANTS MapCoherent SubscribersConverge ReplicaConverges
PROPERTIES StagingIsSafe
