SPECIFICATION Spec
CONSTANTS
  x = x  y = y  m = m  n = n  t1 = t1  t2 = t2  k1 = k1  k2 = k2
  None = None
  Texts = {x, y}
  Profiles = {m, n}
  Tokens = {t1, t2}
  Slots = {k1, k2}
SYMMETRY MCSymmetry
INVARIANTS SupplementFits SessionIsTheCookies ConsentIsForWhatIsSent
