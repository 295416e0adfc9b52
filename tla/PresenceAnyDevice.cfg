SPECIFICATION Spec
CONSTANTS
  Sockets = {s1, s2}
  Users = {u1}
  u1 = u1
  UserOf <- OneUser
  Toggles = {}
  MaxFaults = 0
  s1 = s1
  s2 = s2
SYMMETRY Symmetry
INVARIANTS
  AnyDeviceOnline
