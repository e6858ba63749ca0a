CONSTANTS
  u1 = u1
  u2 = u2
  home = home
  work = work
  padded = padded
  spaces = spaces
  Users = {u1, u2}
  KeyIds = {k1, k2, k3}
  RawNames = {home, work, padded, spaces}
  Names = {home, work}
  Stripped <- MCStripped
  Requests = {r1, r2, r3, r4}
  NoUser = NoUser
  NoKey = NoKey
  NoName = NoName
  Blank = Blank
SPECIFICATION Spec
SYMMETRY Symmetry
CHECK_DEADLOCK FALSE
INVARIANTS TypeOK NamesUnique ErrorsOnlyForRevoked
PROPERTIES RevokedForever ChangedByOwner
