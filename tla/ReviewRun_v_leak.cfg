SPECIFICATION Spec
CONSTANTS
  d1 = d1
  m1 = m1
  m2 = m2
  Docs = {d1}
  Memos = {m1, m2}
  Recent = {m1}
  Shaped = {d1}
  MaxRuns = 2
  MaxEdits = 1
INVARIANT NoStaleDraftTarget
CHECK_DEADLOCK FALSE
