SPECIFICATION Spec
CONSTANTS
  Runs = {r1, r2, r3}
  NoRun = NoRun
  Intakes = {"native"}
  Resubmit = FALSE
  ExitCodes = {0}
  TimerArmed = FALSE
  DiskMayFail = FALSE
  MaxCancels = 1
  MaxFaults = 0
  MayShutDown = TRUE
  MaxRestarts = 1
SYMMETRY Symmetry
PROPERTIES
  ImplementsSerialQueue
