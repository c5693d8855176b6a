SPECIFICATION FairSpec
CONSTANTS
  Ip = {i1}
  Email = {e1}
  Registered = {e1}
  Inactive = {}
  Request = {r1, r2, r3}
  Max = 2
  First = 2
  Lock1 = 1
  Lock2 = 2
  Lock3 = 2
  Lock4 = 2
  CounterTTL = 1
  DbLock = 2
  None = None
  MayFail = FALSE
INVARIANTS
  TypeOK
  ExpiryPending
  LockTakesConcurrency
  FailuresLock
  UncountedByLock
PROPERTIES
  LockErasedByRace
  BlocksEnd
