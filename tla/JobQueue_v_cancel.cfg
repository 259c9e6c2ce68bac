SPECIFICATION Spec
CONSTANTS
  Runs = {r1}
  NoRun = NoRun
  Intakes = {"bundle"}
  Resubmit = FALSE
  ExitCodes = {0}
  TimerArmed = FALSE
  DiskMayFail = FALSE
  MaxCancels = 1
  MaxFaults = 0
  MayShutDown = FALSE
  MaxRestarts = 0
INVARIANTS
  AcceptedCancelCancels
CHECK_DEADLOCK FALSE
