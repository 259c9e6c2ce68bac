SPECIFICATION Spec
CONSTANTS
  p1 = p1
  p2 = p2
  k1 = k1
  n1 = n1
  x = x
  Pipelines = {p1, p2}
  Operators = {k1}
  Names = {n1}
  Items = {x}
  Written = {"durable"}
  Overlap = TRUE
  MaxDrafts = 2
  MaxSeconds = 2
  MaxDeaths = 0
SYMMETRY Symmetry
INVARIANT GovernanceKept
CHECK_DEADLOCK FALSE
