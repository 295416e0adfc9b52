SPECIFICATION FairSpec
CONSTANTS
  Sockets = {s1, s2}
  Users = {u1}
  u1 = u1
  UserOf <- OneUser
  Toggles = {t1}
  MaxFaults = 1
  s1 = s1
  s2 = s2
  t1 = t1
CONSTRAINT ExploredLive
PROPERTIES
  HandlersSettle
