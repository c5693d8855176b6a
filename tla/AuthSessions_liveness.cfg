SPECIFICATION FairSpec
CONSTANTS
  User = {u1}
  Request = {r1, r2, r3}
  Kinds = {"login", "refresh"}
  Admin = {}
  None = None
  AccessTTL = 4
  RefreshTTL = 6
  UsedTTL = 2
  MarkTTL = 4
  Second = 2
  MaxTime = 2
  MayFail = FALSE
PROPERTIES
  ReplayLocksOut
