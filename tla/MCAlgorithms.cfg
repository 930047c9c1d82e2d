SPECIFICATION MCSpec
CONSTANTS
  kA = kA kB = kB x = x y = y null = null
  PVNull = null PVNumbers = {y} PVKey = {kA, kB} PVNone = PVNone Err = Err
  PVRoots <- Roots PVValues <- Values PVSchemas <- Schemas PVItem <- PVa
  RecurseNode <- Rec Satisfies <- Short MaxEditCalls = 2
  Sources <- MCSources Documents <- MCDocuments Pages <- MCPages Alphabet <- MCAlphabet
  Trims <- MCTrims Joins <- MCJoins EndsWith <- MCEndsWith
  MaxNesting = 5 MaxEdits = 2 Times = 2
CHECK_DEADLOCK FALSE
INVARIANTS EditorExact CircuitSound
