SPECIFICATION FairSpec
CONSTANTS
  p1 = p1  p2 = p2  d1 = d1  d2 = d2
  None = None
  Servers = {p1, p2}
  Drafts = {d1, d2}
  LegacyRows = 2
  MaxRows = 3
INVARIANTS OnlyServedTwinsRefused ServedRequestsUnique UpdatesFindTheirRow
PROPERTIES DigestsNeverRewritten PreparationComplete StartsEnd
