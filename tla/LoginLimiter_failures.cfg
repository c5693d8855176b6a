SPECIFICATION Spec
CONSTANTS
  Ip = {i1, i2}
  Email = {e1, e2, e3}
  Registered = {e1, e2}
  Inactive = {e2}
  Request = {r1, r2}
  Max = 2
  First = 2
  Lock1 = 1
  Lock2 = 2
  Lock3 = 2
  Lock4 = 2
  CounterTTL = 2
  DbLock = 2
  None = None
  MayFail = TRUE
SYMMETRY Symmetry
INVARIANTS
  ExpiryPending
  LockTakesConcurrency
  LoginCleans
