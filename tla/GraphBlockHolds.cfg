SPECIFICATION Spec
CONSTANTS
  Users = {u1, u2}
  u1 = u1
  u2 = u2
  Calls = {c1, c2}
  c1 = c1
  c2 = c2
  MaxRows = 3
SYMMETRY Symmetry
INVARIANTS
  NoFollowAcrossBlock
