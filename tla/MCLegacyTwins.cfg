SPECIFICATION Spec
CONSTANTS
  p1 = p1  p2 = p2  d1 = d1  d2 = d2
  None = None
  Servers = {p1}
  Drafts = {d1}
  LegacyRows = 2
  MaxRows = 3
INVARIANTS TwinsNeverRefused
