CONSTANTS
  Absent = Absent
  SizeOf <- MCSizeOf
  Dir = D
  Files = {f, g}
  Versions = {1}
  MaxDeleteCount = 3
  MaxDeletePercent = 0
  UploadsMakeDirs = FALSE
  MaxEdits = 3
  MaxCrashes = 1
SPECIFICATION FairSpec
INVARIANTS TypeOK AsideOwned
PROPERTIES ChildrenSurvive RemoteChildrenSurvive OneSideSettles
CHECK_DEADLOCK FALSE
