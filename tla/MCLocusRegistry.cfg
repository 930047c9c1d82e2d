SPECIFICATION FairSpec
CONSTANTS
  c1 = c1
  c2 = c2
  c3 = c3
  k1 = k1
  k2 = k2
  Call <- MCCall
  NoCall = NoCall
  Key = {k1, k2}
  Asked <- MCAsked
  MaxLoci = 1
CHECK_DEADLOCK FALSE
INVARIANTS Bounded DisposedOnce NothingLeaks
PROPERTIES RegistrySettles
