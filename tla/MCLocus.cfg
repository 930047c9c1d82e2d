SPECIFICATION MCSpec
CONSTANTS
  Task = {t1, t2, t3} NoTask = NoTask
  Conn = {c1, c2, c3} NoConn = NoConn Principal = {p, q}
  SyncKey = {ka, kb} SyncVal = {v} NoValue = NoValue RootPath = RootPath SyncPath = {ka}
  MaxCommits = 2 MaxRequests = 3 MaxLosses = 1
CHECK_DEADLOCK FALSE
INVARIANTS CallsServedTruly ServedHistoryIsCurrent PreparedStillCurrent ConversationSound
PROPERTIES FailureFreezesHistory SettlesAndReleases SessionSteps
