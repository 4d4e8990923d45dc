SPECIFICATION Spec
CONSTANTS
  p1 = p1  p2 = p2  x = x  y = y
  seedcode = seedcode  code1 = code1  code2 = code2
  None = None
  Servers = {p1, p2}
  SeedCode = seedcode
  LegacyCodes <- MCLegacyCodes
  Texts = {x, y}
  MaxRules = 3
  MaxEvents = 2
SYMMETRY MCSymmetry
INVARIANTS HistoryHonest FailsClosed OnlyFlawedRefused SeedIntact
PROPERTIES HistoryStable
