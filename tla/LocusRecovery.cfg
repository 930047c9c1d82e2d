SPECIFICATION FairSpec
CONSTANTS
  MaxHistory = 1
  MaxTail = 1
  MaxRev = 2
  MaxInc = 2
  MaxCalls = 2
  MaxCuts = 1
CHECK_DEADLOCK FALSE
INVARIANTS MirrorIsAuthoritative ChannelInOrder
PROPERTIES FollowsAuthority RecoveryConverges
