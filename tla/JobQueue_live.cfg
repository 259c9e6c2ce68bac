SPECIFICATION FairSpec
CONSTANTS
  Runs = {r1, r2}
  NoRun = NoRun
  Intakes = {"bundle"}
  Resubmit = FALSE
  ExitCodes = {0}
  TimerArmed = TRUE
  DiskMayFail = FALSE
  MaxCancels = 1
  MaxFaults = 0
  MayShutDown = TRUE
  MaxRestarts = 0
PROPERTIES
  EveryRunEnds
  CancelTakesEffect
  ShutdownReturns
CHECK_DEADLOCK FALSE
