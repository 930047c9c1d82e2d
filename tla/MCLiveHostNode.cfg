SPECIFICATION MCSpec
CONSTANTS
  a1 = a1 a2 = a2 w1 = w1
  App = {a1, a2} Http = {h1} WebSocket = {w1, w2}
  Lists <- MCLists Askers <- MCAskers
  MaxConnections = 2 MaxConnectionsPerApplication = 1 MaxConnectionsPerClient = 1
  MaxPendingHandshakes = 2 MaxMessagesPerWindow = 1
  Sizes = {1, 2, 3} MaxBufferedAmount = 2 MaxSends = 5
  Call = {c1, c2, c3, c4} NoCall = NoCall
CHECK_DEADLOCK FALSE
INVARIANTS HostWithinLimits QueueSound OneAuthority NoRegistryConflict StoreConsistent
PROPERTIES HostStops WorkDrains
