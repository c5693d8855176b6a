SPECIFICATION Spec
CONSTANTS
  Ip = {i1}
  Limit = 2
  Window = 3
  None = None
  MaxTime = 5
INVARIANTS
  SlidingWindow
