SPECIFICATION Spec
CONSTANTS
  N = 2
  MaxAnswers = 1
  MaxFaults = 0
INVARIANTS
  NoStaleAnswer
