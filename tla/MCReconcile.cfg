CONSTANTS
  Absent = Absent
  Paths = {a, b}
  Versions = {1, 2, 3}
  SizeOf <- MCSizeOf
  MaxDeleteCount = 1
  MaxDeletePercent = 60
  MaxEdits = 4
SPECIFICATION Spec
INVARIANTS TypeOK BaselineAgrees OnePassSettles
PROPERTIES PassLosesOnlySynced PairingOnlyAdds InitializedWhenPaired MassDeleteBounded
SYMMETRY PathSymmetry
CHECK_DEADLOCK FALSE
