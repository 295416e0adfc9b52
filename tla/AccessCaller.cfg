SPECIFICATION Spec
CONSTANTS
  Users = {u1, u2}
  u1 = u1
  u2 = u2
  Requests = {c1}
  c1 = c1
  Nobody = Nobody
INVARIANTS
  HandlerKnowsCaller
