SPECIFICATION Spec
CONSTANTS
  Users = {u1, u2}
  u1 = u1
  u2 = u2
  Calls = {c1, c2}
  c1 = c1
  c2 = c2
  Nobody = Nobody
  Milli = 2
  MaxClock = 2
  MaxConversations = 1
  MaxMessages = 1
SYMMETRY Symmetry
PROPERTIES
  MarkedIsRead
