SPECIFICATION Spec
CONSTANTS
  User = {u1}
  Request = {r1, r2, r3, r4}
  Kinds = {"login", "refresh", "logout"}
  Admin = {"inactive", "deleted"}
  None = None
  AccessTTL = 1
  RefreshTTL = 1
  UsedTTL = 1
  MarkTTL = 1
  Second = 1
  MaxTime = 0
  MayFail = TRUE
SYMMETRY Symmetry
INVARIANTS
  TypeOK
  SpentStaysSpent
  OrphansExplained
  DeactivatedGetsNothing
