CONSTANTS
  Absent = Absent
  SizeOf <- MCSizeOf
  Dir = D
  Files = {f, g}
  Versions = {1}
  MaxDeleteCount = 3
  MaxDeletePercent = 0
  UploadsMakeDirs = TRUE
  MaxEdits = 2
  MaxCrashes = 0
SPECIFICATION FairSpec
PROPERTIES TreeSettles
CHECK_DEADLOCK FALSE
