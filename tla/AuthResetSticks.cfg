SPECIFICATION Spec
CONSTANTS
  VerifyCode = v
  v = v
  Calls = {c1, c2}
  c1 = c1
  c2 = c2
  Tokens = {t1, t2}
  t1 = t1
  t2 = t2
  ResetCodes = {o1}
  o1 = o1
  MaxFaults = 0
SYMMETRY Symmetry
PROPERTIES
  ResetSticks
