SPECIFICATION MCSpec
CONSTANTS
  Users = {u1, u2}
  u1 = u1
  u2 = u2
  Calls = {c1, c2, c3}
  c1 = c1
  c2 = c2
  c3 = c3
  MaxRows = 4
  Ids = {1, 2, 3}
  None = None
  MaxFaults = 1
  MaxToggles = 5
  ChatCalls = {d1, d2}
  d1 = d1
  d2 = d2
  Milli = 2
  MaxClock = 2
  MaxConversations = 2
  MaxMessages = 1
  PostIds = {1, 2}
  Tags = {u1, u2}
  Writers = {d1, d2}
  MaxWrites = 3
  PostFaults = 1
  Categories = {k1, k2}
  k1 = k1
  k2 = k2
  Threads = {1, 2}
  Answers = {1, 2}
  Members = {k1}
  Posters = {d1, d2}
  MaxRequests = 5
  ForumFaults = 1
SYMMETRY Symmetry
INVARIANTS
  Types
  LateFollowsOnly
  CountersExplained
  TwoLevels
  OneConversation
PROPERTIES
  MarkerForward
