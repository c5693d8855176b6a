SPECIFICATION FairSpec
CONSTANTS
  Ip = {i1}
  Limit = 2
  Window = 2
  None = None
  MaxTime = 6
INVARIANTS
  TypeOK
  AtMostTwice
PROPERTIES
  BlockEnds
