SPECIFICATION MCTreesSpec
CONSTANTS
  MintQuids = {"m1", "m2", "m3", "m4", "m5", "m6", "m7", "m8", "m9"}
  DrainLimit = 2 Templates <- MCTemplates MaxTreeCalls = 3 MaxTreeNodes = 12
  DocStarts <- MCDocStarts DocRequests <- MCDocRequests DocInstalls <- MCDocInstalls
  DocSchemas <- MCSchemas LastRequests <- MCLastRequests MaxDocCalls = 3 DocQuids = {"q1", "q3", "q5"}
  ItemKeys = {"a", "b", "c"} ItemVals = {"v", "w"} FirstItems <- MCFirstItems MaxItems = 2 MaxCollCalls = 3
  CssQuids = {"q1", "q2"} CssProps = {"p"} CssVals = {"a", "b"} FrameNames = {"k"}
  Documents = {"page", "frame"} Ambient = "page" MaxRuleHandles = 2 MaxCssCalls = 3
  WireStarts <- MCWireStarts WireRequests <- MCWireRequests WireActions <- MCWireActions WireInstalls <- MCWireInstalls MaxNesting = 13 MaxWireCalls = 4
CHECK_DEADLOCK FALSE
INVARIANTS TreeSound DocumentExact BindingSound CollectionExact SheetExact WireIsExact
PROPERTIES NothingTakenAway
