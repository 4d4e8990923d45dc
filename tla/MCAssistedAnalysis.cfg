SPECIFICATION FairSpec
CONSTANTS
  q1 = q1  k1 = k1  k2 = k2  x = x  y = y  z = z  hangUp = hangUp
  Short = Short  Spaced = Spaced  Unset = Unset  Junk = Junk  None = None
  Blank = Blank  DefaultAdvice = DefaultAdvice  NoAdvice = NoAdvice
  Tokens = {k1, k2}
  Requests = {q1}
  Environments <- MCEnvironments
  Asks <- MCAsks
  RuleTable <- MCRuleTable
  SeededCodes = {"c1", "c2"}
INVARIANTS
  VerdictFromOneSnapshot
  ValidatedConfigurationsStart
  OneRolePerToken
PROPERTIES
  ImplementsContract
  NoRequestHangs
