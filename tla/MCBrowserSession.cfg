SPECIFICATION Spec
CONSTANTS
  i1 = i1  i2 = i2  t1 = t1  t2 = t2  r1 = r1  r2 = r2
  alice = alice
  None = None
  Instances = {i1, i2}
  Principals = {alice}
  Tokens = {t1, t2}
  Requests = {r1, r2}
  MaxGeneration = 2
  SessionTTL = 1
SYMMETRY MCSymmetry
INVARIANTS NoLateAcceptance
PROPERTIES SessionsEndForAReason
