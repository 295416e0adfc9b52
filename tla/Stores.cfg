SPECIFICATION MCSpec
CONSTANTS
  Ids = {n1, n2}
  Calls = {c1, c2, c3}
  MaxFaults = 1
  n1 = n1
  n2 = n2
  c1 = c1
  c2 = c2
  c3 = c3
  Items = {l1, l2}
  l1 = l1
  l2 = l2
  Numbers = {1, 2}
  Runs = {r1, r2}
  r1 = r1
  r2 = r2
  None = None
  ViewFaults = 1
  CacheCalls = {d1, d2, d3}
  d1 = d1
  d2 = d2
  d3 = d3
  MaxVersion = 2
  CacheFaults = 1
INVARIANTS
  Types
  CountExplained
  EntryExplained
PROPERTIES
  RowsMoveForward
  StaleEnds
  CountsOnce
  ViewsArrive
