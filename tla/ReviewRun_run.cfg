SPECIFICATION Spec
CONSTANTS
  d1 = d1
  m1 = m1
  m2 = m2
  Docs = {d1}
  Memos = {m1, m2}
  Recent = {m1}
  Shaped = {d1}
  MaxRuns = 2
  MaxEdits = 1
INVARIANTS UndeclaredRunSpendsNothing CompletedMeansScreened ReviewedAreSelected DraftCleansUp
PROPERTY OperatorFilesStay
CHECK_DEADLOCK FALSE
