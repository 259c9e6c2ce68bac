SPECIFICATION Spec
CONSTANTS
  Runs = {r1, r2}
  NoRun = NoRun
  Intakes = {"native", "bundle"}
  Resubmit = FALSE
  ExitCodes = {0}
  TimerArmed = FALSE
  DiskMayFail = TRUE
  MaxCancels = 1
  MaxFaults = 0
  MayShutDown = TRUE
  MaxRestarts = 1
SYMMETRY Symmetry
INVARIANTS
  RecordThreadProcess
  NativeFilesStay
