SPECIFICATION Spec
CONSTANTS
  ana = ana
  root = root
  g = g
  p = p
  w = w
  r1 = r1
  r2 = r2
  r3 = r3
  User = {ana, root}
  Super = {root}
  Request = {r1, r2, r3}
  Row = {g, p}
  Start <- MCStart
  Word = {w}
  Last = 2
  Standard <- MCStandard
  Call <- MCCall
  Operated <- MCOperated
  None = None
SYMMETRY Symmetry
INVARIANTS
  TypeOK
  OneRowPerKey
  EnteredHeld
  RefusedLacked
  DeletedOnce
  SeedComplete
  SeedErrorExplained
  NoWaitCycle
