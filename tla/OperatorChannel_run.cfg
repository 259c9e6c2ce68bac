SPECIFICATION FairSpec
CONSTANTS
  N = 3
  MaxAnswers = 3
  MaxFaults = 1
INVARIANTS
  TypeOK
  EachAnswerCountsOnce
  LedgerFaithful
  AmendmentsEarned
PROPERTIES
  DecisionStands
  EveryQuestionEnds
