SPECIFICATION Spec
CONSTANTS
  t1 = t1  t2 = t2
  Texts = {t1, t2}
  MaxCodePoints = 1
  TenthScores <- MCTenthScores
  MaxClicks = 3
  None = None
INVARIANTS ResultBelongsToText LoadingIsWorkedOn LatestUnlessOvertaken PopupFollows
CHECK_DEADLOCK FALSE
SYMMETRY MCSymmetry
