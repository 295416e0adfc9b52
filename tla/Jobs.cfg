SPECIFICATION MCSpec
CONSTANTS
  Events = {e1, e2}
  e1 = e1
  e2 = e2
  MaxAttempts = 2
  MaxFaults = 2
  Ids = {1, 2}
  Viewers = {u1}
  u1 = u1
  Calls = {c1, c2}
  c1 = c1
  c2 = c2
  Job = Job
  Life = 1
  MaxClock = 3
  StoryFaults = 1
  Holders = {h1, h2}
  h1 = h1
  h2 = h2
  Tokens = {t1, t2}
  t1 = t1
  t2 = t2
  Phones = {p1}
  p1 = p1
  Registers = {r1, r2}
  r1 = r1
  r2 = r2
  MaxRegisters = 3
  DeviceFaults = 1
  Recurring <- RecurringJobs
  Servers = {s1, s2}
  s1 = s1
  s2 = s2
  MaxStarts = 3
  ScheduleFaults = 1
CONSTRAINT Explored
INVARIANTS
  Types
  RowsCounted
  HeardOrMissed
  StoriesExplained
  TargetsExplained
PROPERTIES
  AllEnd
