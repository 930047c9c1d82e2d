SPECIFICATION AFairSpec
CONSTANTS
  Conn = {c1, c2}
  NoConn = NoConn
  Attempt <- MCAttempt
  Request = {"r1", "r2"}
  Scenario <- MCScenario
  MaxTerminal = 1
CHECK_DEADLOCK FALSE
INVARIANTS ActionsOnce
PROPERTIES AnswersTrue
