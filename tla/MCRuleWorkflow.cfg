CONSTANTS
  p1 = p1  p2 = p2  p3 = p3  s1 = s1  s2 = s2  r1 = r1  r2 = r2  r3 = r3
  seeded = seeded  fresh = fresh  on = on  off = off  bad = bad
  ann = ann  bob = bob  cat = cat  dan = dan  None = None
  Requests = {p1, p2}
  SubIds = {s1, s2}
  RuleIds = {r1, r2, r3}
  Codes = {seeded, fresh}
  Contents = {on, off, bad}
  MalformedContents = {bad}
  Reviewers = {ann, bob}
  Publishers = {cat, dan}
  SeedRules <- MCSeedRules
  EnabledTwin <- MCEnabledTwin
  Commands <- MCCommands
SYMMETRY MCSymmetry
SPECIFICATION Spec
INVARIANTS
  TypeOK
  ReviewedExactlyOnce
  PublicationsTraceable
  OneRulePerCode
  OnePendingPerRequest
  LocksGuardCommits
  AnswersTrue
  OneFirstAnswer
  NoFalseAlarm
PROPERTIES
  HistoryKept
  ImplementsLifecycle
