SPECIFICATION Spec
CONSTANTS
  User = {u1, u2}
  Request = {r1, r2, r3, r4}
  Kinds = {"login", "refresh", "logout", "me"}
  Admin = {}
  None = None
  AccessTTL = 4
  RefreshTTL = 1
  UsedTTL = 2
  MarkTTL = 4
  Second = 2
  MaxTime = 1
  MayFail = FALSE
SYMMETRY Symmetry
INVARIANTS
  IInv
  IndexInv
  MarkGoesBackByOverlap
PROPERTIES
  ImplementsLedger
