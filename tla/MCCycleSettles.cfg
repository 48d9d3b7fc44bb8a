CONSTANTS
  Absent = Absent
  SizeOf <- MCSizeOf
  Paths = {a}
  Versions = {1, 2}
  MaxDeleteCount = 1
  MaxDeletePercent = 0
  MaxCyclePasses = 2
  InPlaceWrites = FALSE
  MaxOps = 6
  MaxEdits = 3
  MaxCrashes = 1
  MaxFaults = 1
  MaxCommands = 1
SPECIFICATION FairSpec
PROPERTIES Settles
CHECK_DEADLOCK FALSE
