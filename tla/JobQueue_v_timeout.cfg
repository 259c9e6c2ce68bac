SPECIFICATION Spec
CONSTANTS
  Runs = {r1}
  NoRun = NoRun
  Intakes = {"native"}
  Resubmit = FALSE
  ExitCodes = {0}
  TimerArmed = TRUE
  DiskMayFail = FALSE
  MaxCancels = 0
  MaxFaults = 1
  MayShutDown = FALSE
  MaxRestarts = 0
INVARIANTS
  TimedOutIsTimeout
CHECK_DEADLOCK FALSE
