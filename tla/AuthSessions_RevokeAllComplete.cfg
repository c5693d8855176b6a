SPECIFICATION Spec
CONSTANTS
  User = {u1}
  Request = {r1, r2, r3, r4}
  Kinds = {"login", "refresh", "logout", "me"}
  Admin = {}
  None = None
  AccessTTL = 4
  RefreshTTL = 6
  UsedTTL = 2
  MarkTTL = 4
  Second = 2
  MaxTime = 0
  MayFail = FALSE
SYMMETRY Symmetry
INVARIANTS
  RevokeAllComplete
