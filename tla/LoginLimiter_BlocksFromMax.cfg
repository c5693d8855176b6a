SPECIFICATION Spec
CONSTANTS
  Ip = {i1}
  Email = {e1}
  Registered = {e1}
  Inactive = {}
  Request = {r1, r2, r3}
  Max = 2
  First = 2
  Lock1 = 1
  Lock2 = 2
  Lock3 = 3
  Lock4 = 4
  CounterTTL = 2
  DbLock = 2
  None = None
  MayFail = FALSE
SYMMETRY Symmetry
INVARIANTS
  BlocksFromMax
