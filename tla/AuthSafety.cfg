SPECIFICATION Spec
CONSTANTS
  VerifyCode = v
  v = v
  Calls = {c1, c2, c3}
  c1 = c1
  c2 = c2
  c3 = c3
  Tokens = {t1, t2, t3}
  t1 = t1
  t2 = t2
  t3 = t3
  ResetCodes = {o1}
  o1 = o1
  MaxFaults = 1
SYMMETRY Symmetry
INVARIANTS
  TypeOK
  EffectsNeedCode
  OriginRevoked
  LockoutExplained
PROPERTIES
  RevokedStays
