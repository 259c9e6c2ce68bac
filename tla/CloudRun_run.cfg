SPECIFICATION FairSpec
CONSTANTS
  d1 = d1
  d2 = d2
  i1 = i1
  p1 = p1
  p2 = p2
  Deploys = {d1, d2}
  Instances = {i1}
  Places = {p1, p2}
  MaxDeaths = 2
  MaxReruns = 1
INVARIANTS ValidMeansOver OneAttempt
PROPERTY PaidInstanceEnds
CHECK_DEADLOCK FALSE
