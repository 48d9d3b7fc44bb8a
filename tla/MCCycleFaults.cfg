CONSTANTS
  Absent = Absent
  SizeOf <- MCSizeOf
  Paths = {a}
  Versions = {1, 2}
  MaxDeleteCount = 1
  MaxDeletePercent = 0
  MaxCyclePasses = 2
  InPlaceWrites = TRUE
  MaxOps = 6
  MaxEdits = 3
  MaxCrashes = 1
  MaxFaults = 1
  MaxCommands = 1
SPECIFICATION Spec
PROPERTIES ExecutionDestroysOnlySynced QuietCycleSettles CycleAdvances
CHECK_DEADLOCK FALSE
