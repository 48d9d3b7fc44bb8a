CONSTANTS
  Absent = Absent
  SizeOf <- MCSizeOf
  Paths = {a}
  Versions = {1, 2}
  MaxDeleteCount = 1
  MaxDeletePercent = 0
  MaxCyclePasses = 2
  InPlaceWrites = TRUE
  MaxOps = 3
  MaxEdits = 3
  MaxCrashes = 1
  MaxFaults = 0
  MaxCommands = 0
SPECIFICATION Spec
PROPERTIES OnlySyncedBytesDestroyed
CHECK_DEADLOCK FALSE
