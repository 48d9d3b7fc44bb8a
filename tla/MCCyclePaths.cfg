CONSTANTS
  Absent = Absent
  SizeOf <- MCSizeOf
  Paths = {a, b}
  Versions = {1}
  MaxDeleteCount = 1
  MaxDeletePercent = 0
  MaxCyclePasses = 2
  InPlaceWrites = FALSE
  MaxOps = 5
  MaxEdits = 4
  MaxCrashes = 0
  MaxFaults = 0
  MaxCommands = 0
SPECIFICATION Spec
PROPERTIES PairingOnlyAdds InitializedWhenPaired
SYMMETRY PathSymmetry
CHECK_DEADLOCK FALSE
