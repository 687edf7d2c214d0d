SPECIFICATION FairSpec
CONSTANTS
  Programs = {p1, p2}
  k1 = k1
  k2 = k2
  k3 = k3
  Operations <- MCOperations
  MaxCount = 1
  Nobody = Nobody
INVARIANTS TypeOK FirstUseOnce
PROPERTIES ImplementsStore CallEnds
