CONSTANTS
  p1 = p1  p2 = p2  p3 = p3  s1 = s1  s2 = s2  r1 = r1  r2 = r2  r3 = r3
  seeded = seeded  fresh = fresh  on = on  off = off  bad = bad
  ann = ann  bob = bob  cat = cat  dan = dan  None = None
  Requests = {p1, p2, p3}
  SubIds = {s1}
  RuleIds = {r1, r2}
  Codes = {seeded, fresh}
  Contents = {on, off, bad}
  MalformedContents = {bad}
  Reviewers = {ann}
  Publishers = {cat}
  SeedRules <- MCSeedRules
  EnabledTwin <- MCEnabledTwin
  Commands <- MCCommands
SPECIFICATION Spec
INVARIANTS
  PublicationNeverAlarms
