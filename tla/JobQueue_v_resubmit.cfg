SPECIFICATION Spec
CONSTANTS
  Runs = {r1, r2}
  NoRun = NoRun
  Intakes = {"native"}
  Resubmit = TRUE
  ExitCodes = {0}
  TimerArmed = FALSE
  DiskMayFail = FALSE
  MaxCancels = 0
  MaxFaults = 0
  MayShutDown = FALSE
  MaxRestarts = 0
SYMMETRY Symmetry
INVARIANTS
  NativeFilesStay
CHECK_DEADLOCK FALSE
