SPECIFICATION Spec
CONSTANTS
  User = {u1}
  Request = {r1, r2, r3}
  AliceUpper = AliceUpper
  Alice = Alice
  Bob = Bob
  Ana = Ana
  Bea = Bea
  Address = {AliceUpper, Alice, Bob}
  Name = {Ana, Bea}
  Normal <- MCNormal
  Signup <- MCSignup
  Update <- MCUpdate
  None = None
  Removable = TRUE
SYMMETRY Symmetry
INVARIANTS
  TypeOK
  OneAccountEach
  LateConflict
  UpdateTakesEffect
PROPERTIES
  OnlyAsked
