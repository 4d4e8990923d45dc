SPECIFICATION FairSpec
CONSTANTS
  s1 = s1  s2 = s2
  Subjects = {s1, s2}
  Global = Global
  SubjectLimit = 2
  GlobalLimit = 3
  Window = 3
  MaxCount = 4
INVARIANTS SlidingBound BudgetSpentOnce
PROPERTIES WindowsEnd
