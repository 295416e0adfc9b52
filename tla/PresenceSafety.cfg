SPECIFICATION Spec
CONSTANTS
  Sockets = {s1, s2, s3, s4}
  Users = {u1}
  u1 = u1
  UserOf <- OneUser
  Toggles = {t1, t2}
  MaxFaults = 1
  s1 = s1
  s2 = s2
  s3 = s3
  s4 = s4
  t1 = t1
  t2 = t2
SYMMETRY Symmetry
CONSTRAINT Explored
INVARIANTS
  TypeOK
  SocketIndexed
  NoGhostSocket
  NoZombieUser
  OfflineOnlyIfRaced
  SequentialExact
PROPERTIES
  KeepsPromise
