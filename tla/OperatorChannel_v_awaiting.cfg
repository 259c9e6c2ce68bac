SPECIFICATION Spec
CONSTANTS
  N = 1
  MaxAnswers = 0
  MaxFaults = 0
INVARIANTS
  AwaitingMeansWaiting
