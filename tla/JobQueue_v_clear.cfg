SPECIFICATION Spec
CONSTANTS
  Runs = {r1, r2}
  NoRun = NoRun
  Intakes = {"bundle"}
  Resubmit = FALSE
  ExitCodes = {0}
  TimerArmed = FALSE
  DiskMayFail = FALSE
  MaxCancels = 0
  MaxFaults = 0
  MayShutDown = FALSE
  MaxRestarts = 0
INVARIANTS
  RunningKeepsItsCases
CHECK_DEADLOCK FALSE
