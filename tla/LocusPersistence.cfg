SPECIFICATION PSpec
CONSTANTS
  Task = {t1, t2, t3}
  NoTask = NoTask
  Alike = {{t1, t2}}
  MaxRestarts = 2
CHECK_DEADLOCK FALSE
INVARIANTS NothingAcceptedIsLost
PROPERTIES RejectedNeverDurable ImplementsDurableLog
