SPECIFICATION Spec
CONSTANTS
  Runs = {r1, r2}
  NoRun = NoRun
  Intakes = {"native"}
  Resubmit = TRUE
  ExitCodes = {0, 3}
  TimerArmed = TRUE
  DiskMayFail = FALSE
  MaxCancels = 1
  MaxFaults = 1
  MayShutDown = TRUE
  MaxRestarts = 1
SYMMETRY Symmetry
INVARIANTS
  TypeOK
  OnePipeline
  EndedMeansGone
  ProcessReachable
  OutcomeEarned
  StagingFollowsJob
PROPERTIES
  SettledNeverStarts
  EndedIsFinal
