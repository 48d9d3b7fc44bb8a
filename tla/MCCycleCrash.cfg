CONSTANTS
  Absent = Absent
  SizeOf <- MCSizeOf
  Paths = {a}
  Versions = {1, 2}
  MaxDeleteCount = 1
  MaxDeletePercent = 0
  MaxCyclePasses = 2
  InPlaceWrites = FALSE
  MaxOps = 3
  MaxEdits = 3
  MaxCrashes = 2
  MaxFaults = 0
  MaxCommands = 1
SPECIFICATION Spec
INVARIANTS TypeOK BaselineAgrees NothingLeftBehind
PROPERTIES OnlySyncedBytesDestroyed OnlySyncedRemoteReplaced LocalFileMovedAside DestroysOnce BlockedFreezes JournalKept
CHECK_DEADLOCK FALSE
